---------------------------- MODULE Spec2Model ----------------------------
(***************************************************************************)
(* A model of the RDB storage core: Pager, Page, BufferPool, SlottedPage,  *)
(* BTreeIndex and the query Executor.                                      *)
(*                                                                         *)
(* Pages are modelled at the byte level.  A page's data is a sequence of   *)
(* PAGE_SIZE bytes; byte offset o of the source is index o + 1 here.       *)
(* The in-page layouts (slot directory, B+ tree node header and entries)   *)
(* use the source's field offsets and widths.  PAGE_SIZE and               *)
(* COMPRESSION_THRESHOLD are scaled down from the source's 8192 and 64 so  *)
(* that pages fill up, split and spill after a handful of operations.      *)
(***************************************************************************)
EXTENDS Integers, Sequences, FiniteSets, TLC

(***************************************************************************)
(* Sizes                                                                   *)
(***************************************************************************)
\* storage/page.rs:1 has 8192; scaled.
PAGE_SIZE == 32
\* storage/slotted.rs:10 has 64; scaled.
COMPRESSION_THRESHOLD == 2
\* storage/slotted.rs:8, HEADER_SIZE: num_slots(2) + free_space_end(2) + next_page_id(4)
SLOTTED_HEADER_SIZE == 8
SLOT_SIZE == 4
\* storage/index.rs:8, HEADER_SIZE: is_leaf(1) + num_keys(2) + parent(4) + next_leaf(4) + padding(1)
BTREE_HEADER_SIZE == 12
KEY_SIZE == 4
PTR_SIZE == 4
VALUE_SIZE == 6

\* Most pages the buffer-pool specification lets the file grow to.
MaxPages == 3
\* Largest LruCache capacity the buffer-pool specification constructs.
MaxCapacity == 2
\* Most handles the buffer-pool specification's callers hold at a time.
MaxHeld == 1
\* Bytes the buffer-pool specification's callers store into a page.
WriteValues == {7}
\* Largest tuple body the slotted-page specification inserts.
MaxTupleLen == 3
\* Most insert_tuple calls the slotted-page specification makes on its page.
MaxInserts == 4
\* Largest key the B+ tree specification inserts.
MaxKey == 4
\* Largest LruCache capacity the B+ tree specification constructs.
MaxBtCapacity == 4
\* Largest row id the executor specification inserts.
MaxId == 3
\* Most pages the executor specification lets the file grow to.
MaxExPages == 7
\* Largest LruCache capacity the executor specification starts the server with.
MaxExCapacity == 3
\* Most Insert, Update and Delete queries the executor specification makes.
MaxExWrites == 3
\* Most restarts of the server in the executor specification.
MaxExRestarts == 1
\* Threads that call into one Pager in the pager specification.
MaxPgThreads == 2
\* Most pages the file of the pager specification grows to.
MaxPgPages == 3
\* Most pages the file of the catalog specification grows to.
MaxCtPages == 9
\* Most Insert queries the catalog specification makes.
MaxCtInserts == 3
\* Most sub-queries of a Batch in the batch specification.
MaxBatchLen == 3
\* Most Batch queries the batch specification makes.
MaxBatches == 2
\* Most rows the scan of the ordering specification returns.
MaxRows == 3
\* Largest distance of a value of the ordering specification from 0 and from 2^53.
MaxOff == 2
\* Largest offset and limit of a Select in the ordering specification.
MaxSlice == 2
\* Threads of the server that run a query at the same time in the concurrency
\* specification.
MaxCcThreads == 2
\* Entries of the access list in the access specification.
MaxAcl == 2
\* Sessions opened by login in the access specification.
MaxSessions == 1
\* Sub-queries of a Batch in the access specification.
MaxAuBatch == 2
\* Threads that call the BufferPool at the same time in the lock-order specification.
MaxLkThreads == 2
\* Calls the threads of the lock-order specification make.
MaxLkCalls == 3
\* Pages of the file in the lock-order specification.
MaxLkPages == 3
\* Largest row id of the table specification.
MaxTbId == 2
\* Most pages the table specification lets the file grow to.
MaxTbPages == 7
\* Most Insert, Update and Delete queries the table specification makes.
MaxTbWrites == 3
\* Most restarts of the server in the table specification.
MaxTbRestarts == 2
\* u32::MAX, the largest index key, scaled down as the page is.
U32_MAX == 5
\* u64::MAX, the largest value of a query's hash, scaled down as the page is.
U64_MAX == 2
\* Largest capacity of the QueryCache.
MaxQcCapacity == 2
\* Longest string the filter specification compares.
MaxLikeLen == 3
\* Longest tuple body the tuple-update specification stores.
MaxUpLen == 7
\* Most insert_tuple and update_tuple calls the tuple-update specification makes.
MaxUpCalls == 4
Byte == 0..255

(***************************************************************************)
(* Little-endian field access (byteorder::LittleEndian)                    *)
(***************************************************************************)
U16(x) == x % 65536

read_u8(d, o) == d[o + 1]

read_u16(d, o) == d[o + 1] + 256 * d[o + 2]

read_u32(d, o) == d[o + 1] + 256 * d[o + 2] + 65536 * d[o + 3] + 16777216 * d[o + 4]

\* data[o .. o + Len(bs)) := bs   (copy_from_slice)
write_bytes(d, o, bs) ==
    [i \in 1..Len(d) |-> IF i > o /\ i <= o + Len(bs) THEN bs[i - o] ELSE d[i]]

write_u16(d, o, v) == write_bytes(d, o, <<v % 256, (v \div 256) % 256>>)

write_u32(d, o, v) ==
    write_bytes(d, o, <<v % 256, (v \div 256) % 256,
                        (v \div 65536) % 256, (v \div 16777216) % 256>>)

\* data[a .. b)
slice(d, a, b) == [i \in 1..(b - a) |-> d[a + i]]

Zeros(n) == [i \in 1..n |-> 0]

(***************************************************************************)
(* Page                                                                    *)
(***************************************************************************)
\* Page::new: zeroed, clean.
PageNew(id) == [id |-> id, data |-> Zeros(PAGE_SIZE), dirty |-> FALSE]

\* Page::from_bytes: clean.
PageFromBytes(id, bytes) == [id |-> id, data |-> bytes, dirty |-> FALSE]

(***************************************************************************)
(* zstd::encode_all / zstd::decode_all.  The library is outside the        *)
(* repository; it is modelled by a concrete lossless codec (run-length     *)
(* pairs <<count, byte>>) that shortens repetitive input and lengthens     *)
(* the rest, which is what insert_tuple's "keep only if smaller" tests.    *)
(***************************************************************************)
RECURSIVE RunLen(_, _)
\* length of the run of equal bytes starting at index i
RunLen(d, i) ==
    IF i < Len(d) /\ d[i + 1] = d[i] THEN 1 + RunLen(d, i + 1) ELSE 1

RECURSIVE EncodeFrom(_, _)
EncodeFrom(d, i) ==
    IF i > Len(d) THEN <<>>
    ELSE LET n == RunLen(d, i) IN <<n, d[i]>> \o EncodeFrom(d, i + n)

zstd_encode_all(d) == EncodeFrom(d, 1)

RECURSIVE DecodeFrom(_, _)
DecodeFrom(c, i) ==
    IF i > Len(c) THEN <<>>
    ELSE [k \in 1..c[i] |-> c[i + 1]] \o DecodeFrom(c, i + 2)

\* [ok, val]: Err on a malformed frame.
zstd_decode_all(c) ==
    IF Len(c) % 2 = 1 \/ \E k \in 1..(Len(c) \div 2) : c[2 * k - 1] = 0
    THEN [ok |-> FALSE, val |-> <<>>]
    ELSE [ok |-> TRUE, val |-> DecodeFrom(c, 1)]

(***************************************************************************)
(* SlottedPage (storage/slotted.rs).  Operators take and return Page       *)
(* records.                                                                *)
(***************************************************************************)
None == [some |-> FALSE]
Some(v) == [some |-> TRUE, val |-> v]

num_slots(p) == read_u16(p.data, 0)
set_num_slots(p, v) == [p EXCEPT !.data = write_u16(@, 0, v), !.dirty = TRUE]

free_space_end(p) == read_u16(p.data, 2)
set_free_space_end(p, v) == [p EXCEPT !.data = write_u16(@, 2, v), !.dirty = TRUE]

next_page_id(p) == read_u32(p.data, 4)
set_next_page_id(p, v) == [p EXCEPT !.data = write_u32(@, 4, v), !.dirty = TRUE]

\* Mutant of slotted_init: the fresh page is linked to itself.
slotted_init_self_linked(p) ==
    set_next_page_id(set_free_space_end(set_num_slots(p, 0), PAGE_SIZE), p.id)

slotted_init(p) ==
    set_next_page_id(set_free_space_end(set_num_slots(p, 0), U16(PAGE_SIZE)), 0)

free_space(p) ==
    LET header_end == SLOTTED_HEADER_SIZE + num_slots(p) * SLOT_SIZE
        data_start == free_space_end(p)
    IN  IF data_start >= header_end THEN data_start - header_end ELSE 0

slot_offset(i) == SLOTTED_HEADER_SIZE + i * SLOT_SIZE

\* compact, step 1: the <<slot id, payload>> pairs of slots i.. that are kept
RECURSIVE valid_tuples(_, _)
valid_tuples(p, i) ==
    IF i >= num_slots(p) THEN <<>>
    ELSE LET tuple_offset == read_u16(p.data, slot_offset(i))
             tuple_len == read_u16(p.data, slot_offset(i) + 2)
             rest == valid_tuples(p, i + 1)
         IN  IF tuple_offset # 0 /\ tuple_len # 0 /\ tuple_offset + tuple_len <= PAGE_SIZE
             THEN <<[slot |-> i,
                     data |-> slice(p.data, tuple_offset, tuple_offset + tuple_len)]>> \o rest
             ELSE rest

\* Mutant of rewrite_tuples: the payloads are moved but the slots keep their old offsets.
RECURSIVE rewrite_tuples_stale_slots(_, _, _)
rewrite_tuples_stale_slots(p, vt, k) ==
    IF k > Len(vt) THEN p
    ELSE LET free_end == free_space_end(p)
             new_offset == U16(free_end - Len(vt[k].data))
             p1 == [p EXCEPT !.data = write_bytes(@, new_offset, vt[k].data)]
         IN  rewrite_tuples_stale_slots(set_free_space_end(p1, new_offset), vt, k + 1)

\* compact, step 3: rewrite the kept payloads packed from the end
RECURSIVE rewrite_tuples(_, _, _)
rewrite_tuples(p, vt, k) ==
    IF k > Len(vt) THEN p
    ELSE LET free_end == free_space_end(p)
             new_offset == U16(free_end - Len(vt[k].data))
             p1 == [p EXCEPT !.data = write_bytes(@, new_offset, vt[k].data)]
             p2 == set_free_space_end(p1, new_offset)
             p3 == [p2 EXCEPT !.data = write_u16(@, slot_offset(vt[k].slot), new_offset)]
         IN  rewrite_tuples(p3, vt, k + 1)

compact(p) ==
    rewrite_tuples(set_free_space_end(p, U16(PAGE_SIZE)), valid_tuples(p, 0), 1)

\* Mutant of final_data: the compressed form is stored under the raw flag.
final_data_raw_flag(data) ==
    IF Len(data) > COMPRESSION_THRESHOLD
    THEN LET compressed == zstd_encode_all(data)
         IN  IF Len(compressed) < Len(data)
             THEN [data |-> compressed, flag |-> 0]
             ELSE [data |-> data, flag |-> 0]
    ELSE [data |-> data, flag |-> 0]

\* the compression decision shared by insert_tuple and update_tuple
final_data(data) ==
    IF Len(data) > COMPRESSION_THRESHOLD
    THEN LET compressed == zstd_encode_all(data)
         IN  IF Len(compressed) < Len(data)
             THEN [data |-> compressed, flag |-> 1]
             ELSE [data |-> data, flag |-> 0]
    ELSE [data |-> data, flag |-> 0]

\* Mutant of place_tuple: the free-space frontier is not moved down.
place_tuple_frontier_kept(p, fd) ==
    LET free_end == free_space_end(p)
        new_offset == U16(free_end - U16(Len(fd.data) + 1))
    IN  [page |-> [p EXCEPT !.data = write_bytes(@, new_offset, <<fd.flag>> \o fd.data)],
         offset |-> new_offset]

\* flag byte + body written at the free-space frontier
place_tuple(p, fd) ==
    LET free_end == free_space_end(p)
        new_offset == U16(free_end - U16(Len(fd.data) + 1))
    IN  [page |-> set_free_space_end(
                     [p EXCEPT !.data = write_bytes(@, new_offset, <<fd.flag>> \o fd.data)],
                     new_offset),
         offset |-> new_offset]

\* Mutant of insert_tuple: a failed call has already counted the new slot.
insert_tuple_counted_early(p, data) ==
    LET stored(fd, n, pl) ==
            [page |-> set_num_slots(
                          [pl.page EXCEPT !.data =
                              write_u16(write_u16(@, slot_offset(n), pl.offset),
                                        slot_offset(n) + 2, U16(Len(fd.data) + 1))],
                          U16(n + 1)),
             ok |-> TRUE, slot |-> n]
        room(pc, fd, required_space) ==
            IF free_space(pc) < required_space
            THEN [page |-> set_num_slots(pc, U16(num_slots(pc) + 1)), ok |-> FALSE, slot |-> 0]
            ELSE stored(fd, num_slots(pc), place_tuple(pc, fd))
        sized(fd, required_space) ==
            room(IF free_space(p) < required_space THEN compact(p) ELSE p,
                 fd, required_space)
        chosen(fd) == sized(fd, Len(fd.data) + 1 + SLOT_SIZE)
    IN  chosen(final_data(data))

\* [page, ok, slot]
insert_tuple(p, data) ==
    LET stored(fd, n, pl) ==
            [page |-> set_num_slots(
                          [pl.page EXCEPT !.data =
                              write_u16(write_u16(@, slot_offset(n), pl.offset),
                                        slot_offset(n) + 2, U16(Len(fd.data) + 1))],
                          U16(n + 1)),
             ok |-> TRUE, slot |-> n]
        room(pc, fd, required_space) ==
            IF free_space(pc) < required_space
            THEN [page |-> pc, ok |-> FALSE, slot |-> 0]
            ELSE stored(fd, num_slots(pc), place_tuple(pc, fd))
        sized(fd, required_space) ==
            room(IF free_space(p) < required_space THEN compact(p) ELSE p,
                 fd, required_space)
        chosen(fd) == sized(fd, Len(fd.data) + 1 + SLOT_SIZE)
    IN  chosen(final_data(data))

\* Option<bytes>
get_tuple(p, slot_id) ==
    IF slot_id >= num_slots(p) THEN None
    ELSE LET tuple_offset == read_u16(p.data, slot_offset(slot_id))
             tuple_len == read_u16(p.data, slot_offset(slot_id) + 2)
         IN  IF tuple_offset = 0 THEN None
             ELSE IF tuple_offset + tuple_len > PAGE_SIZE THEN None
             ELSE LET raw_data == slice(p.data, tuple_offset, tuple_offset + tuple_len)
                  IN  IF Len(raw_data) = 0 THEN Some(<<>>)
                      ELSE LET flag == raw_data[1]
                               content == Tail(raw_data)
                           IN  IF flag = 1
                               THEN LET dec == zstd_decode_all(content)
                                    IN  IF dec.ok THEN Some(dec.val) ELSE None
                               ELSE Some(content)

\* Mutant of update_tuple: the slot entry written is always that of slot 0.
update_tuple_first_slot(p, slot_id, data) ==
    IF slot_id >= num_slots(p) THEN [page |-> p, ok |-> FALSE]
    ELSE LET stored(fd, pl) ==
                 [page |-> [pl.page EXCEPT !.data =
                               write_u16(write_u16(@, slot_offset(0), pl.offset),
                                         slot_offset(0) + 2, U16(Len(fd.data) + 1))],
                  ok |-> TRUE]
             room(pc, fd, required_space) ==
                 IF free_space(pc) < required_space
                 THEN [page |-> pc, ok |-> FALSE]
                 ELSE stored(fd, place_tuple(pc, fd))
             sized(fd, required_space) ==
                 room(IF free_space(p) < required_space THEN compact(p) ELSE p,
                      fd, required_space)
             chosen(fd) == sized(fd, Len(fd.data) + 1)
         IN  chosen(final_data(data))

\* [page, ok]
update_tuple(p, slot_id, data) ==
    IF slot_id >= num_slots(p) THEN [page |-> p, ok |-> FALSE]
    ELSE LET stored(fd, pl) ==
                 [page |-> [pl.page EXCEPT !.data =
                               write_u16(write_u16(@, slot_offset(slot_id), pl.offset),
                                         slot_offset(slot_id) + 2, U16(Len(fd.data) + 1))],
                  ok |-> TRUE]
             room(pc, fd, required_space) ==
                 IF free_space(pc) < required_space
                 THEN [page |-> pc, ok |-> FALSE]
                 ELSE stored(fd, place_tuple(pc, fd))
             sized(fd, required_space) ==
                 room(IF free_space(p) < required_space THEN compact(p) ELSE p,
                      fd, required_space)
             chosen(fd) == sized(fd, Len(fd.data) + 1)
         IN  chosen(final_data(data))

\* Mutant of mark_deleted: only the length is cleared, the offset stays.
mark_deleted_keep_offset(p, slot_id) ==
    IF slot_id >= num_slots(p) THEN [page |-> p, ok |-> FALSE]
    ELSE [page |-> [p EXCEPT !.data = write_u16(@, slot_offset(slot_id) + 2, 0)],
          ok |-> TRUE]

\* [page, ok]; the dirty flag is not touched
mark_deleted(p, slot_id) ==
    IF slot_id >= num_slots(p) THEN [page |-> p, ok |-> FALSE]
    ELSE [page |-> [p EXCEPT !.data =
                       write_u16(write_u16(@, slot_offset(slot_id), 0),
                                 slot_offset(slot_id) + 2, 0)],
          ok |-> TRUE]


(***************************************************************************)
(* Pager (storage/pager.rs) and BufferPool (storage/buffer.rs).            *)
(*                                                                         *)
(* One database (db_id 0, "main") is registered, so a GlobalPageId is      *)
(* modelled by its page_id.  File I/O itself does not fail.                *)
(*                                                                         *)
(* A store record s carries the Pager's file and total_pages and the       *)
(* pool's LRU cache:                                                       *)
(*   s.file        the file's pages; page id p is s.file[p + 1]            *)
(*   s.total_pages the Pager's counter                                     *)
(*   s.pages       the LruCache, most recently used first: entries         *)
(*                 [gid, h] where h names the shared Arc<RwLock<Page>>     *)
(*   s.objs        the Page objects that are alive, by handle; an object   *)
(*                 stays alive after its eviction while someone holds it   *)
(*   s.capacity    the LruCache's capacity                                 *)
(***************************************************************************)
\* Mutant of file_write_at: the write is lost.
file_write_dropped(f, page_id, data) == f

\* file.seek(page_id * PAGE_SIZE); file.write_all(data): a write past the end of the
\* file extends it, the gap reads as zeros
file_write_at(f, page_id, data) ==
    [i \in 1..(IF page_id + 1 > Len(f) THEN page_id + 1 ELSE Len(f)) |->
        IF i = page_id + 1 THEN data
        ELSE IF i > Len(f) THEN Zeros(PAGE_SIZE) ELSE f[i]]

\* file.seek(page_id * PAGE_SIZE); file.read_exact(&mut buffer): [ok, data]
file_read_exact(f, page_id) ==
    IF page_id + 1 > Len(f) THEN [ok |-> FALSE, data |-> Zeros(PAGE_SIZE)]
    ELSE [ok |-> TRUE, data |-> f[page_id + 1]]

\* Mutant of fetch_add: the counter is read but not advanced.
fetch_add_not_stored(total) == [old |-> total, new |-> total]

\* total_pages.fetch_add(1, SeqCst) on the AtomicU32: [old, new]
fetch_add(total) ==
    [old |-> total,
     new |-> IF total + 1 < 65536 THEN total + 1 ELSE (total + 1) % (65536 * 65536)]

\* Pager::read_page: [ok, page]
read_page(s, page_id) ==
    LET read(r) ==
            IF ~r.ok THEN [ok |-> FALSE, page |-> PageNew(page_id)]
            ELSE [ok |-> TRUE, page |-> PageFromBytes(page_id, r.data)]
    IN  IF page_id >= s.total_pages
        THEN [ok |-> FALSE, page |-> PageNew(page_id)]
        ELSE read(file_read_exact(s.file, page_id))

\* Pager::write_page: the dirty flag is the caller's business
write_page(s, page) == [s EXCEPT !.file = file_write_at(@, page.id, page.data)]

\* Mutant of allocate_page: the counter stays, so the same id is handed out again.
allocate_page_same_id(s) ==
    [s EXCEPT !.file = file_write_at(@, s.total_pages - 1, Zeros(PAGE_SIZE))]

\* Pager::allocate_page: the id returned is the old s.total_pages
allocate_page(s) ==
    [s EXCEPT !.total_pages = fetch_add(@).new,
              !.file = file_write_at(@, s.total_pages, Zeros(PAGE_SIZE))]

\* Arc::new: a handle no live object has
FreshHandle(s) == CHOOSE h \in 0..Cardinality(DOMAIN s.objs) : h \notin DOMAIN s.objs

CachedAt(s, gid) == {i \in 1..Len(s.pages) : s.pages[i].gid = gid}

HandleOf(s, gid) == s.pages[CHOOSE i \in CachedAt(s, gid) : TRUE].h

\* Mutant of lru_touch: a hit leaves the order of the entries as it is.
lru_touch_order_kept(s, gid) == s

\* LruCache::get's effect on the order: the entry moves to the front
lru_touch(s, gid) ==
    LET i == CHOOSE j \in CachedAt(s, gid) : TRUE
    IN  [s EXCEPT !.pages = <<s.pages[i]>> \o SubSeq(s.pages, 1, i - 1)
                                \o SubSeq(s.pages, i + 1, Len(s.pages))]

\* Mutant of write_back: the victim is dropped without being written.
write_back_dropped(s, victim) == s

\* "Flush if dirty" of fetch_page and new_page
write_back(s, victim) ==
    IF s.objs[victim.h].dirty THEN write_page(s, s.objs[victim.h]) ELSE s

\* pages.push(gid, Arc::new(RwLock::new(page))) and the eviction that follows it in
\* fetch_page and new_page.  gid is not cached when this is called.  The least
\* recently used entry is pushed out of a full cache, whoever holds its handle;
\* evicted_page.read() then waits for a write guard on the victim, forever if the
\* calling thread itself holds that guard (wlocked: the handles it has write-locked).
\* [s, h, hang, evicted, victim]
lru_push(s, gid, page, wlocked) ==
    LET full == Len(s.pages) >= s.capacity
        victim == s.pages[Len(s.pages)]
        pushed(s1, h) ==
            IF ~full
            THEN [s |-> s1, h |-> h, hang |-> FALSE, evicted |-> FALSE,
                  victim |-> [gid |-> 0, h |-> 0]]
            ELSE IF victim.h \in wlocked
            THEN [s |-> s1, h |-> h, hang |-> TRUE, evicted |-> TRUE, victim |-> victim]
            ELSE [s |-> write_back(s1, victim), h |-> h, hang |-> FALSE,
                  evicted |-> TRUE, victim |-> victim]
        named(h) ==
            pushed([s EXCEPT !.pages = <<[gid |-> gid, h |-> h]>>
                                 \o (IF full THEN SubSeq(s.pages, 1, Len(s.pages) - 1)
                                     ELSE s.pages),
                             !.objs = (h :> page) @@ @],
                   h)
    IN  named(FreshHandle(s))

NoVictim == [gid |-> 0, h |-> 0]

\* BufferPool::fetch_page: [s, ok, h, hang, hit, evicted, victim]
fetch_page(s, gid, wlocked) ==
    IF CachedAt(s, gid) # {}
    THEN [s |-> lru_touch(s, gid), ok |-> TRUE, h |-> HandleOf(s, gid), hang |-> FALSE,
          hit |-> TRUE, evicted |-> FALSE, victim |-> NoVictim]
    ELSE LET pushed(e) ==
                 [s |-> e.s, ok |-> TRUE, h |-> e.h, hang |-> e.hang,
                  hit |-> FALSE, evicted |-> e.evicted, victim |-> e.victim]
             read(r) ==
                 IF ~r.ok
                 THEN [s |-> s, ok |-> FALSE, h |-> 0, hang |-> FALSE,
                       hit |-> FALSE, evicted |-> FALSE, victim |-> NoVictim]
                 ELSE pushed(lru_push(s, gid, r.page, wlocked))
         IN  read(read_page(s, gid))

\* BufferPool::new_page: [s, ok, h, id, hang, evicted, victim]
new_page(s, wlocked) ==
    LET page_id == s.total_pages
        pushed(e) ==
            [s |-> e.s, ok |-> TRUE, h |-> e.h, id |-> page_id, hang |-> e.hang,
             evicted |-> e.evicted, victim |-> e.victim]
    IN  pushed(lru_push(allocate_page(s), page_id, PageNew(page_id), wlocked))

\* Mutant of flush_from: every cached page is written, dirty or not.
RECURSIVE flush_from_every_page(_, _, _)
flush_from_every_page(s, i, locked) ==
    IF i > Len(s.pages) THEN [s |-> s, hang |-> FALSE]
    ELSE LET h == s.pages[i].h
         IN  IF h \in locked THEN [s |-> s, hang |-> TRUE]
             ELSE flush_from_every_page(
                      [write_page(s, s.objs[h]) EXCEPT !.objs[h].dirty = FALSE],
                      i + 1, locked)

\* BufferPool::flush_all, from cache entry i on, in pages.iter() order.  page.write()
\* waits for every guard on the page (locked: the handles the calling thread holds a
\* guard on).  [s, hang]
RECURSIVE flush_from(_, _, _)
flush_from(s, i, locked) ==
    IF i > Len(s.pages) THEN [s |-> s, hang |-> FALSE]
    ELSE LET h == s.pages[i].h
         IN  IF h \in locked THEN [s |-> s, hang |-> TRUE]
             ELSE IF s.objs[h].dirty
             THEN flush_from([write_page(s, s.objs[h]) EXCEPT !.objs[h].dirty = FALSE],
                             i + 1, locked)
             ELSE flush_from(s, i + 1, locked)

flush_all(s, locked) == flush_from(s, 1, locked)

\* Dropping handles: an object lives while the cache or a holder (keep) refers to it.
drop_unreferenced(s, keep) ==
    LET live == {s.pages[i].h : i \in 1..Len(s.pages)} \cup keep
    IN  [s EXCEPT !.objs = [h \in live |-> s.objs[h]]]

(***************************************************************************)
(* BTreeNode and BTreeIndex (storage/index.rs).                            *)
(*                                                                         *)
(* None of the node operations sets the page's dirty flag.  A slice index  *)
(* past the end of the page panics; st = "panic" reports it.               *)
(*                                                                         *)
(* The operations of BTreeIndex (and of the Executor further down) run on  *)
(* a store and a guard context g of the calling thread:                    *)
(*   g.keep  the handles the caller holds (they keep evicted objects alive)*)
(*   g.r     the handles it holds a read guard on                          *)
(*   g.w     the handles it holds a write guard on                         *)
(* and return st = "ok", "err" (an Err result), "panic", or "hang" (the    *)
(* call never returns: the thread waits for a lock it holds itself, or     *)
(* loops for ever).                                                        *)
(***************************************************************************)
LEAF_ORDER == (PAGE_SIZE - BTREE_HEADER_SIZE) \div (KEY_SIZE + VALUE_SIZE)

Guards(keep, r, w) == [keep |-> keep, r |-> r, w |-> w]
NoGuards == Guards({}, {}, {})
WithWrite(g, h) == [g EXCEPT !.keep = @ \cup {h}, !.w = @ \cup {h}]
WithRead(g, h) == [g EXCEPT !.keep = @ \cup {h}, !.r = @ \cup {h}]

is_leaf(p) == read_u8(p.data, 0) = 1
set_is_leaf(p, val) == [p EXCEPT !.data = write_bytes(@, 0, <<IF val THEN 1 ELSE 0>>)]

num_keys(p) == read_u16(p.data, 1)
set_num_keys(p, val) == [p EXCEPT !.data = write_u16(@, 1, val)]

next_leaf(p) == read_u32(p.data, 7)
set_next_leaf(p, val) == [p EXCEPT !.data = write_u32(@, 7, val)]

node_init(p, leaf) == set_next_leaf(set_num_keys(set_is_leaf(p, leaf), 0), 0)

key_offset(p, idx) ==
    BTREE_HEADER_SIZE + idx * (KEY_SIZE + IF is_leaf(p) THEN VALUE_SIZE ELSE PTR_SIZE)

\* &data[o .. o + n] is inside the page
InPage(o, n) == o + n <= PAGE_SIZE

get_key(p, idx) == read_u32(p.data, key_offset(p, idx))

\* the pointer lookup_internal returns when it reads it at byte offset o: [st, id]
pointer_at(p, o) ==
    IF InPage(o, 4) THEN [st |-> "ok", id |-> read_u32(p.data, o)]
    ELSE [st |-> "panic", id |-> 0]

\* lookup_internal's loop over the keys, from key i on
RECURSIVE lookup_from(_, _, _)
lookup_from(p, key, i) ==
    IF i >= num_keys(p)
    THEN pointer_at(p, BTREE_HEADER_SIZE + 4 + (num_keys(p) - 1) * (KEY_SIZE + 4) + KEY_SIZE)
    ELSE IF ~InPage(key_offset(p, i), 4) THEN [st |-> "panic", id |-> 0]
    ELSE IF key < get_key(p, i)
    THEN (IF i = 0 THEN pointer_at(p, BTREE_HEADER_SIZE)
          ELSE pointer_at(p, BTREE_HEADER_SIZE + 4 + (i - 1) * (KEY_SIZE + 4) + KEY_SIZE))
    ELSE lookup_from(p, key, i + 1)

lookup_internal(p, key) ==
    IF num_keys(p) = 0 THEN pointer_at(p, BTREE_HEADER_SIZE) ELSE lookup_from(p, key, 0)

\* search_leaf's loop, from entry i on: [st, val]
RECURSIVE search_leaf_from(_, _, _)
search_leaf_from(p, key, i) ==
    IF i >= num_keys(p) THEN [st |-> "ok", val |-> None]
    ELSE IF ~InPage(key_offset(p, i), 4) THEN [st |-> "panic", val |-> None]
    ELSE IF get_key(p, i) = key
    THEN LET offset == BTREE_HEADER_SIZE + i * (KEY_SIZE + VALUE_SIZE) + KEY_SIZE
         IN  IF InPage(offset, 6)
             THEN [st |-> "ok",
                   val |-> Some(<<read_u32(p.data, offset), read_u16(p.data, offset + 4)>>)]
             ELSE [st |-> "panic", val |-> None]
    ELSE search_leaf_from(p, key, i + 1)

search_leaf(p, key) == search_leaf_from(p, key, 0)

\* Mutant of insert_pos: the position is that of the first key not below the new one.
RECURSIVE insert_pos_at_equal(_, _, _)
insert_pos_at_equal(p, key, i) ==
    IF i >= num_keys(p) THEN num_keys(p)
    ELSE IF get_key(p, i) >= key THEN i
    ELSE insert_pos_at_equal(p, key, i + 1)

\* insert_leaf's "find position" loop
RECURSIVE insert_pos(_, _, _)
insert_pos(p, key, i) ==
    IF i >= num_keys(p) THEN num_keys(p)
    ELSE IF get_key(p, i) > key THEN i
    ELSE insert_pos(p, key, i + 1)

\* insert_leaf, called with num_keys < LEAF_ORDER on a leaf
insert_leaf(p, key, value) ==
    LET num == num_keys(p)
        pos == insert_pos(p, key, 0)
        entry_size == KEY_SIZE + VALUE_SIZE
        offset == BTREE_HEADER_SIZE + pos * entry_size
        end == BTREE_HEADER_SIZE + num * entry_size
        d1 == write_bytes(p.data, offset + entry_size, slice(p.data, offset, end))
        d2 == write_u16(write_u32(write_u32(d1, offset, key), offset + 4, value[1]),
                        offset + 8, value[2])
    IN  set_num_keys([p EXCEPT !.data = d2], U16(num + 1))

\* split_leaf_to: [self, other]
split_leaf_to(self, other, split_idx) ==
    LET num == num_keys(self)
        count == num - split_idx
        entry_size == KEY_SIZE + VALUE_SIZE
        src_start == BTREE_HEADER_SIZE + split_idx * entry_size
        src_end == BTREE_HEADER_SIZE + num * entry_size
        o1 == [other EXCEPT !.data =
                  write_bytes(@, BTREE_HEADER_SIZE, slice(self.data, src_start, src_end))]
    IN  [self |-> set_num_keys(self, U16(split_idx)), other |-> set_num_keys(o1, U16(count))]

insert_internal(p, key, left_pid, right_pid) ==
    LET p0_offset == BTREE_HEADER_SIZE
        k1_offset == p0_offset + 4
    IN  set_num_keys(
            [p EXCEPT !.data = write_u32(write_u32(write_u32(@, p0_offset, left_pid),
                                                   k1_offset, key),
                                         k1_offset + 4, right_pid)],
            1)

\* the store with object h replaced
SetObj(s, h, page) == [s EXCEPT !.objs[h] = page]

\* BTreeIndex::find_leaf, at current_page_id.  visited holds the loop states passed
\* through: the loop is back in one of them exactly when it never ends.
\* [s, st, id]
RECURSIVE find_leaf_from(_, _, _, _, _)
find_leaf_from(s, current_page_id, key, g, visited) ==
    LET here == <<current_page_id, s.pages, s.objs, s.file>>
        follow(s1, l) ==
            IF l.st # "ok" THEN [s |-> s1, st |-> l.st, id |-> 0]
            ELSE find_leaf_from(s1, l.id, key, g, visited \cup {here})
        at(s1, node) ==
            IF is_leaf(node) THEN [s |-> s1, st |-> "ok", id |-> current_page_id]
            ELSE follow(s1, lookup_internal(node, key))
        fetched(f) ==
            IF ~f.ok THEN [s |-> s, st |-> "err", id |-> 0]
            ELSE IF f.hang \/ f.h \in g.w THEN [s |-> f.s, st |-> "hang", id |-> 0]
            ELSE at(drop_unreferenced(f.s, g.keep), f.s.objs[f.h])
    IN  IF here \in visited THEN [s |-> s, st |-> "hang", id |-> 0]
        ELSE fetched(fetch_page(s, current_page_id, g.w))

find_leaf(s, root_page_id, key, g) == find_leaf_from(s, root_page_id, key, g, {})

\* BTreeIndex::init: [s, st]
btree_init(s, root_page_id, g) ==
    LET fetched(f) ==
            IF ~f.ok THEN [s |-> s, st |-> "err"]
            ELSE IF f.hang \/ f.h \in g.r \cup g.w THEN [s |-> f.s, st |-> "hang"]
            ELSE [s |-> drop_unreferenced(SetObj(f.s, f.h, node_init(f.s.objs[f.h], TRUE)),
                                          g.keep),
                  st |-> "ok"]
    IN  fetched(fetch_page(s, root_page_id, g.w))

\* BTreeIndex::search: [s, st, val]
btree_search(s, root_page_id, key, g) ==
    LET searched(s1, r) == [s |-> s1, st |-> r.st, val |-> r.val]
        fetched(s0, f) ==
            IF ~f.ok THEN [s |-> s0, st |-> "err", val |-> None]
            ELSE IF f.hang \/ f.h \in g.w THEN [s |-> f.s, st |-> "hang", val |-> None]
            ELSE searched(drop_unreferenced(f.s, g.keep), search_leaf(f.s.objs[f.h], key))
        found(fl) ==
            IF fl.st # "ok" THEN [s |-> fl.s, st |-> fl.st, val |-> None]
            ELSE fetched(fl.s, fetch_page(fl.s, fl.id, g.w))
    IN  found(find_leaf(s, root_page_id, key, g))

\* BTreeIndex::insert from "Split Leaf" on; the caller holds the write guard on the
\* leaf, handle h.  [s, st]
split_and_promote(s, root_page_id, leaf_page_id, h, g) ==
    LET rooted(nr, new_h, new_page_id) ==
            IF nr.hang THEN [s |-> nr.s, st |-> "hang"]
            ELSE [s |-> drop_unreferenced(
                            SetObj(nr.s, nr.h,
                                   insert_internal(node_init(nr.s.objs[nr.h], FALSE),
                                                   get_key(nr.s.objs[new_h], 0),
                                                   leaf_page_id, new_page_id)),
                            g.keep),
                  st |-> "err"]
        linked(s1, new_h, new_page_id) ==
            IF leaf_page_id # root_page_id
            THEN [s |-> drop_unreferenced(s1, g.keep), st |-> "ok"]
            ELSE rooted(new_page(s1, g.w \cup {h}), new_h, new_page_id)
        moved(s0, halves, new_h, new_page_id) ==
            linked(SetObj(SetObj(s0, new_h,
                                 set_next_leaf(halves.other, next_leaf(halves.self))),
                          h, set_next_leaf(halves.self, new_page_id)),
                   new_h, new_page_id)
        allocated(np) ==
            IF np.hang THEN [s |-> np.s, st |-> "hang"]
            ELSE IF ~InPage(BTREE_HEADER_SIZE
                                + num_keys(np.s.objs[h]) * (KEY_SIZE + VALUE_SIZE), 0)
            THEN [s |-> drop_unreferenced(np.s, g.keep), st |-> "panic"]
            ELSE moved(np.s,
                       split_leaf_to(np.s.objs[h], node_init(np.s.objs[np.h], TRUE),
                                     LEAF_ORDER \div 2),
                       np.h, np.id)
    IN  allocated(new_page(s, g.w \cup {h}))

\* BTreeIndex::insert: [s, st]
btree_insert(s, root_page_id, key, value, g) ==
    LET fetched(s0, leaf_page_id, f) ==
            IF ~f.ok THEN [s |-> s0, st |-> "err"]
            ELSE IF f.hang \/ f.h \in g.r \cup g.w THEN [s |-> f.s, st |-> "hang"]
            ELSE IF num_keys(f.s.objs[f.h]) < U16(LEAF_ORDER)
            THEN [s |-> drop_unreferenced(
                            SetObj(f.s, f.h, insert_leaf(f.s.objs[f.h], key, value)), g.keep),
                  st |-> "ok"]
            ELSE split_and_promote(f.s, root_page_id, leaf_page_id, f.h, g)
        found(fl) ==
            IF fl.st # "ok" THEN [s |-> fl.s, st |-> fl.st]
            ELSE fetched(fl.s, fl.id, fetch_page(fl.s, fl.id, g.w))
    IN  found(find_leaf(s, root_page_id, key, g))

(***************************************************************************)
(* Catalog (storage/catalog.rs), rows and filters.                         *)
(*                                                                         *)
(* serde_json is modelled by a concrete text format of the same kind, cut  *)
(* down to the scaled page: a catalog is "{" entry* "}", an entry is the   *)
(* table's name (one letter), root_page_id and index_root_page_id (one     *)
(* decimal digit each) and "t" or "f" for "the column id is the primary    *)
(* key"; a row is "{" id v "}" with one decimal digit per field.  As in    *)
(* JSON text, no byte of an encoding is zero.                              *)
(***************************************************************************)
TableNames == {"t", "u"}

NameByte(name) == CASE name = "t" -> 116 [] name = "u" -> 117

Digit(n) == 48 + n
IsDigit(b) == b >= 48 /\ b <= 57

\* Catalog::new
CatalogNew == <<>>

\* Catalog::add_table
add_table(catalog, info) == (info.name :> info) @@ catalog

\* Mutant of table_exists: no name is ever found in the catalog.
table_exists_never(catalog, name) == FALSE

\* catalog.tables.contains_key(name)
table_exists(catalog, name) == name \in DOMAIN catalog

\* Mutant of remove_table: the catalog is emptied.
remove_table_all(catalog, name) == CatalogNew

\* tables.remove
remove_table(catalog, name) == [n \in DOMAIN catalog \ {name} |-> catalog[n]]

\* one table's entry
info_to_bytes(info) ==
    <<NameByte(info.name), Digit(info.root_page_id), Digit(info.index_root_page_id),
      IF info.primary_key THEN 116 ELSE 102>>

RECURSIVE entries_to_bytes(_, _)
entries_to_bytes(catalog, names) ==
    IF names = {} THEN <<>>
    ELSE LET n == CHOOSE x \in names : \A y \in names : NameByte(x) <= NameByte(y)
         IN  info_to_bytes(catalog[n]) \o entries_to_bytes(catalog, names \ {n})

\* Catalog::to_bytes
catalog_to_bytes(catalog) == <<123>> \o entries_to_bytes(catalog, DOMAIN catalog) \o <<125>>

\* the entries of a catalog text, from byte index i on: [ok, val]
RECURSIVE entries_from_bytes(_, _, _)
entries_from_bytes(text, i, acc) ==
    IF i = Len(text) THEN [ok |-> TRUE, val |-> acc]
    ELSE IF i + 4 > Len(text) THEN [ok |-> FALSE, val |-> acc]
    ELSE IF /\ \E n \in TableNames : NameByte(n) = text[i]
            /\ IsDigit(text[i + 1]) /\ IsDigit(text[i + 2])
            /\ text[i + 3] \in {116, 102}
    THEN LET name == CHOOSE n \in TableNames : NameByte(n) = text[i]
         IN  entries_from_bytes(
                 text, i + 4,
                 add_table(acc, [name |-> name, root_page_id |-> text[i + 1] - 48,
                                 index_root_page_id |-> text[i + 2] - 48,
                                 primary_key |-> text[i + 3] = 116]))
    ELSE [ok |-> FALSE, val |-> acc]

\* bytes.iter().position(|&x| x == 0).unwrap_or(bytes.len())
RECURSIVE first_zero(_, _)
first_zero(bytes, i) ==
    IF i >= Len(bytes) THEN Len(bytes)
    ELSE IF bytes[i + 1] = 0 THEN i
    ELSE first_zero(bytes, i + 1)

\* Catalog::from_bytes: [ok, val]
catalog_from_bytes(bytes) ==
    LET parse(text) ==
            IF Len(text) >= 2 /\ text[1] = 123 /\ text[Len(text)] = 125
            THEN entries_from_bytes(text, 2, CatalogNew)
            ELSE [ok |-> FALSE, val |-> CatalogNew]
        trimmed(len) ==
            IF len = 0 THEN [ok |-> TRUE, val |-> CatalogNew]
            ELSE parse(slice(bytes, 0, len))
    IN  trimmed(first_zero(bytes, 0))

\* catalog_guard.data[..bytes.len()].copy_from_slice(&bytes); data[bytes.len()..].fill(0);
\* catalog_guard.dirty = true
catalog_store(page, bytes) ==
    [page EXCEPT !.data = bytes \o Zeros(PAGE_SIZE - Len(bytes)), !.dirty = TRUE]

\* serde_json::to_vec of a row; a string column s, where the row has one, is written
\* between quotes
row_to_vec(row) ==
    <<123, Digit(row.id), Digit(row.v)>>
        \o (IF "s" \in DOMAIN row THEN <<34>> \o row.s \o <<34>> ELSE <<>>)
        \o <<125>>

\* serde_json::from_slice of a row: [ok, val]
row_from_slice(bytes) ==
    IF /\ Len(bytes) = 4 /\ bytes[1] = 123 /\ bytes[4] = 125
       /\ IsDigit(bytes[2]) /\ IsDigit(bytes[3])
    THEN [ok |-> TRUE, val |-> [id |-> bytes[2] - 48, v |-> bytes[3] - 48]]
    ELSE [ok |-> FALSE, val |-> [id |-> 0, v |-> 0]]

\* int_val as u32: the value modulo u32::MAX + 1
as_u32(int_val) == int_val % (U32_MAX + 1)

\* a where clause on column = value
Where(column, value) == Some([column |-> column, cmp |-> "=", value |-> value])

\* Executor::check_filter, for the operator "="
check_filter(val, where_clause) ==
    /\ where_clause.column \in DOMAIN val
    /\ where_clause.cmp = "="
    /\ val[where_clause.column] = where_clause.value

\* the filter decision of the scans: no clause matches every row
match_filter(val, where) == where.some => check_filter(val, where.val)

\* map.insert(k, v) for every (k, v) of the set clause
apply_set(val, set) == [c \in DOMAIN val \cup DOMAIN set |-> IF c \in DOMAIN set THEN set[c] ELSE val[c]]

(***************************************************************************)
(* Executor (query/executor.rs), database "main" (db_id 0).                *)
(*                                                                         *)
(* A handler returns [s, st, ...] as the BTreeIndex operations do.  The    *)
(* handles and guards it holds are dropped when it returns; the action     *)
(* that calls it settles the store.                                        *)
(***************************************************************************)
Failed(s, st) == [s |-> s, st |-> st, rows |-> <<>>, count |-> 0, why |-> ""]

\* the Err a handler returns with its anyhow! message: "exists" for "Table {} already
\* exists", "not_found" for "Table {} not found"
Because(s, why) == [Failed(s, "err") EXCEPT !.why = why]

\* Executor::handle_create_table; columns: one column id, primary key or not
handle_create_table(s, table, primary_key) ==
    LET store(s4, ch, bytes) ==
            IF Len(bytes) > PAGE_SIZE THEN Failed(s4, "err")
            ELSE [Failed(SetObj(s4, ch, catalog_store(s4.objs[ch], bytes)), "ok")
                     EXCEPT !.count = 1]
        index_ready(r, ch, catalog, root_page_id, index_root_page_id) ==
            IF r.st # "ok" THEN Failed(r.s, r.st)
            ELSE store(r.s, ch,
                       catalog_to_bytes(
                           add_table(catalog,
                                     [name |-> table, root_page_id |-> root_page_id,
                                      index_root_page_id |-> index_root_page_id,
                                      primary_key |-> primary_key])))
        index_allocated(np, g, ch, catalog, root_page_id) ==
            IF np.hang THEN Failed(np.s, "hang")
            ELSE index_ready(btree_init(np.s, np.id, [g EXCEPT !.keep = @ \cup {np.h}]),
                             ch, catalog, root_page_id, np.id)
        root_allocated(np, g, ch, catalog) ==
            IF np.hang THEN Failed(np.s, "hang")
            ELSE index_allocated(
                     new_page(SetObj(np.s, np.h, slotted_init(np.s.objs[np.h])), g.w),
                     [g EXCEPT !.keep = @ \cup {np.h}], ch, catalog, np.id)
        loaded(s1, ch, c) ==
            IF ~c.ok THEN Failed(s1, "err")
            ELSE IF table_exists(c.val, table) THEN Because(s1, "exists")
            ELSE root_allocated(new_page(s1, {ch}), WithWrite(NoGuards, ch), ch, c.val)
        fetched(f) ==
            IF ~f.ok THEN Failed(s, "err")
            ELSE loaded(f.s, f.h, catalog_from_bytes(f.s.objs[f.h].data))
    IN  fetched(fetch_page(s, 1, {}))

\* Executor::handle_drop_table
handle_drop_table(s, table) ==
    LET loaded(s1, ch, c) ==
            IF ~c.ok THEN Failed(s1, "err")
            ELSE IF ~table_exists(c.val, table) THEN Because(s1, "not_found")
            ELSE [Failed(SetObj(s1, ch,
                                catalog_store(s1.objs[ch],
                                              catalog_to_bytes(remove_table(c.val, table)))),
                         "ok") EXCEPT !.count = 1]
        fetched(f) ==
            IF ~f.ok THEN Failed(s, "err")
            ELSE loaded(f.s, f.h, catalog_from_bytes(f.s.objs[f.h].data))
    IN  fetched(fetch_page(s, 1, {}))

\* the handlers' common start: fetch page 1, take its read guard, parse the catalog, look
\* the table up.  [s, st, g, info, why]
open_table(s, table) ==
    LET loaded(s1, ch, c) ==
            IF ~c.ok \/ table \notin DOMAIN c.val
            THEN [s |-> s1, st |-> "err", g |-> NoGuards, info |-> <<>>,
                  why |-> IF c.ok THEN "not_found" ELSE ""]
            ELSE [s |-> s1, st |-> "ok", g |-> WithRead(NoGuards, ch), info |-> c.val[table],
                  why |-> ""]
        fetched(f) ==
            IF ~f.ok THEN [s |-> s, st |-> "err", g |-> NoGuards, info |-> <<>>, why |-> ""]
            ELSE loaded(f.s, f.h, catalog_from_bytes(f.s.objs[f.h].data))
    IN  fetched(fetch_page(s, 1, {}))

\* a tuple that an empty slotted page has room for
fits_empty_page(tuple_data) == insert_tuple(slotted_init(PageNew(0)), tuple_data).ok

\* handle_insert's inner loop, at current_page_id: [s, st, pid, sid].  It does not end
\* when it walks a cycle of full pages, or when the tuple fits no empty page.
RECURSIVE place_row(_, _, _, _, _)
place_row(s, current_page_id, tuple_data, g, visited) ==
    LET stuck(s1) == [s |-> s1, st |-> "hang", pid |-> 0, sid |-> 0]
        linked(np, h) ==
            IF np.hang \/ ~fits_empty_page(tuple_data) THEN stuck(np.s)
            ELSE place_row(
                     drop_unreferenced(
                         SetObj(SetObj(np.s, np.h, slotted_init(np.s.objs[np.h])),
                                h, set_next_page_id(np.s.objs[h], np.id)),
                         g.keep),
                     np.id, tuple_data, g, {})
        tried(s0, h, r) ==
            IF r.ok
            THEN [s |-> drop_unreferenced(SetObj(s0, h, r.page), g.keep), st |-> "ok",
                  pid |-> current_page_id, sid |-> r.slot]
            ELSE IF next_page_id(r.page) # 0
            THEN place_row(drop_unreferenced(SetObj(s0, h, r.page), g.keep),
                           next_page_id(r.page), tuple_data, g,
                           visited \cup {current_page_id})
            ELSE linked(new_page(SetObj(s0, h, r.page), g.w \cup {h}), h)
        fetched(f) ==
            IF ~f.ok THEN [s |-> s, st |-> "err", pid |-> 0, sid |-> 0]
            ELSE IF f.hang \/ f.h \in g.r \cup g.w THEN stuck(f.s)
            ELSE tried(f.s, f.h, insert_tuple(f.s.objs[f.h], tuple_data))
    IN  IF current_page_id \in visited THEN stuck(s)
        ELSE fetched(fetch_page(s, current_page_id, g.w))

\* handle_insert's loop over query.values
RECURSIVE insert_values(_, _, _, _, _)
insert_values(s, table_info, values, current_page_id, g) ==
    LET indexed(r, pid) ==
            IF r.st # "ok" THEN Failed(r.s, r.st)
            ELSE insert_values(r.s, table_info, Tail(values), pid, g)
        placed(pl) ==
            IF pl.st # "ok" THEN Failed(pl.s, pl.st)
            ELSE IF table_info.primary_key /\ "id" \in DOMAIN Head(values)
            THEN indexed(btree_insert(pl.s, table_info.index_root_page_id,
                                      as_u32(Head(values).id), <<pl.pid, pl.sid>>, g),
                         pl.pid)
            ELSE insert_values(pl.s, table_info, Tail(values), pl.pid, g)
    IN  IF values = <<>> THEN [Failed(s, "ok") EXCEPT !.count = 1]
        ELSE placed(place_row(s, current_page_id, row_to_vec(Head(values)), g, {}))

\* Executor::handle_insert
handle_insert(s, table, values) ==
    LET opened(t) ==
            IF t.st # "ok" THEN [Failed(t.s, t.st) EXCEPT !.why = t.why]
            ELSE insert_values(t.s, t.info, values, t.info.root_page_id, t.g)
    IN  opened(open_table(s, table))

\* the projection of handle_select
project(val, columns) ==
    IF columns = <<"*">> THEN val
    ELSE [c \in {columns[i] : i \in 1..Len(columns)} \cap DOMAIN val |-> val[c]]

\* the scan's loop over the slots of one page, from slot i on: [ok, rows]
RECURSIVE page_rows(_, _, _, _, _)
page_rows(p, i, where, columns, acc) ==
    LET parsed(r) ==
            IF ~r.ok THEN [ok |-> FALSE, rows |-> acc]
            ELSE page_rows(p, i + 1, where, columns,
                           IF match_filter(r.val, where)
                           THEN Append(acc, project(r.val, columns)) ELSE acc)
        got(t) ==
            IF ~t.some \/ t.val = <<>> THEN page_rows(p, i + 1, where, columns, acc)
            ELSE parsed(row_from_slice(t.val))
    IN  IF i >= num_slots(p) THEN [ok |-> TRUE, rows |-> acc]
        ELSE got(get_tuple(p, i))

\* Mutant of scan_from: the scan stops after its first page.
scan_from_first_page(s, current_page_id, where, columns, g, visited, acc) ==
    LET scanned(s1, r) ==
            IF ~r.ok THEN Failed(s1, "err") ELSE [Failed(s1, "ok") EXCEPT !.rows = r.rows]
        fetched(f) ==
            IF ~f.ok THEN Failed(s, "err")
            ELSE scanned(drop_unreferenced(f.s, g.keep),
                         page_rows(f.s.objs[f.h], 0, where, columns, acc))
    IN  IF current_page_id = 0 THEN [Failed(s, "ok") EXCEPT !.rows = acc]
        ELSE fetched(fetch_page(s, current_page_id, g.w))

\* "Full Table Scan", at current_page_id: [s, st, rows, count].  It does not end on a
\* cyclic chain.
RECURSIVE scan_from(_, _, _, _, _, _, _)
scan_from(s, current_page_id, where, columns, g, visited, acc) ==
    LET scanned(s1, r, next) ==
            IF ~r.ok THEN Failed(s1, "err")
            ELSE scan_from(s1, next, where, columns, g,
                           visited \cup {current_page_id}, r.rows)
        fetched(f) ==
            IF ~f.ok THEN Failed(s, "err")
            ELSE IF f.hang \/ f.h \in g.w THEN Failed(f.s, "hang")
            ELSE scanned(drop_unreferenced(f.s, g.keep),
                         page_rows(f.s.objs[f.h], 0, where, columns, acc),
                         next_page_id(f.s.objs[f.h]))
    IN  IF current_page_id = 0 THEN [Failed(s, "ok") EXCEPT !.rows = acc]
        ELSE IF current_page_id \in visited THEN Failed(s, "hang")
        ELSE fetched(fetch_page(s, current_page_id, g.w))

\* "Check for Index Scan": the lookup through the B+ tree
index_scan(s, table_info, key, columns, g) ==
    LET parsed(s1, r) ==
            IF ~r.ok THEN Failed(s1, "err")
            ELSE [Failed(s1, "ok") EXCEPT !.rows = <<project(r.val, columns)>>]
        got(s1, t) ==
            IF ~t.some \/ t.val = <<>> THEN Failed(s1, "ok")
            ELSE parsed(s1, row_from_slice(t.val))
        fetched(s0, f, sid) ==
            IF ~f.ok THEN Failed(s0, "err")
            ELSE IF f.hang \/ f.h \in g.w THEN Failed(f.s, "hang")
            ELSE got(drop_unreferenced(f.s, g.keep), get_tuple(f.s.objs[f.h], sid))
        searched(r) ==
            IF r.st # "ok" THEN Failed(r.s, r.st)
            ELSE IF ~r.val.some THEN Failed(r.s, "ok")
            ELSE fetched(r.s, fetch_page(r.s, r.val.val[1], g.w), r.val.val[2])
    IN  searched(btree_search(s, table_info.index_root_page_id, key, g))

\* the clause sends handle_select through the index
takes_index_path(table_info, where) ==
    /\ table_info.primary_key
    /\ where.some
    /\ where.val.column = "id" /\ where.val.cmp = "="

\* Executor::handle_select with join, order_by, offset and limit absent
handle_select(s, from, columns, where) ==
    LET opened(t) ==
            IF t.st # "ok" THEN [Failed(t.s, t.st) EXCEPT !.why = t.why]
            ELSE IF takes_index_path(t.info, where)
            THEN index_scan(t.s, t.info, as_u32(where.val.value), columns, t.g)
            ELSE scan_from(t.s, t.info.root_page_id, where, columns, t.g, {}, <<>>)
    IN  opened(open_table(s, from))

\* handle_update's loop over the slots of one page, from slot i on: [page, ok, count]
RECURSIVE update_slots(_, _, _, _, _)
update_slots(p, i, set, where, count) ==
    LET updated(u) ==
            IF ~u.ok THEN [page |-> u.page, ok |-> FALSE, count |-> count]
            ELSE update_slots(u.page, i + 1, set, where, count + 1)
        parsed(r) ==
            IF ~r.ok THEN [page |-> p, ok |-> FALSE, count |-> count]
            ELSE IF match_filter(r.val, where)
            THEN updated(update_tuple(p, i, row_to_vec(apply_set(r.val, set))))
            ELSE update_slots(p, i + 1, set, where, count)
        got(t) ==
            IF ~t.some \/ t.val = <<>> THEN update_slots(p, i + 1, set, where, count)
            ELSE parsed(row_from_slice(t.val))
    IN  IF i >= num_slots(p) THEN [page |-> p, ok |-> TRUE, count |-> count]
        ELSE got(get_tuple(p, i))

\* handle_delete's loop over the slots of one page, from slot i on: [page, ok, count]
RECURSIVE delete_slots(_, _, _, _)
delete_slots(p, i, where, count) ==
    LET parsed(r) ==
            IF ~r.ok THEN [page |-> p, ok |-> FALSE, count |-> count]
            ELSE IF match_filter(r.val, where)
            THEN delete_slots(mark_deleted(p, i).page, i + 1, where, count + 1)
            ELSE delete_slots(p, i + 1, where, count)
        got(t) ==
            IF ~t.some \/ t.val = <<>> THEN delete_slots(p, i + 1, where, count)
            ELSE parsed(row_from_slice(t.val))
    IN  IF i >= num_slots(p) THEN [page |-> p, ok |-> TRUE, count |-> count]
        ELSE got(get_tuple(p, i))

\* handle_update's loop over the pages, at current_page_id: [s, st, rows, count]
RECURSIVE update_from(_, _, _, _, _, _, _)
update_from(s, current_page_id, set, where, g, visited, count) ==
    LET updated(s0, h, r) ==
            IF ~r.ok THEN Failed(drop_unreferenced(SetObj(s0, h, r.page), g.keep), "err")
            ELSE update_from(drop_unreferenced(SetObj(s0, h, r.page), g.keep),
                             next_page_id(r.page), set, where, g,
                             visited \cup {current_page_id}, r.count)
        fetched(f) ==
            IF ~f.ok THEN Failed(s, "err")
            ELSE IF f.hang \/ f.h \in g.r \cup g.w THEN Failed(f.s, "hang")
            ELSE updated(f.s, f.h, update_slots(f.s.objs[f.h], 0, set, where, count))
    IN  IF current_page_id = 0 THEN [Failed(s, "ok") EXCEPT !.count = count]
        ELSE IF current_page_id \in visited THEN Failed(s, "hang")
        ELSE fetched(fetch_page(s, current_page_id, g.w))

\* Executor::handle_update
handle_update(s, table, set, where) ==
    LET opened(t) ==
            IF t.st # "ok" THEN [Failed(t.s, t.st) EXCEPT !.why = t.why]
            ELSE update_from(t.s, t.info.root_page_id, set, where, t.g, {}, 0)
    IN  opened(open_table(s, table))

\* handle_delete's loop over the pages, at current_page_id: [s, st, rows, count]
RECURSIVE delete_from(_, _, _, _, _, _)
delete_from(s, current_page_id, where, g, visited, count) ==
    LET deleted(s0, h, r) ==
            IF ~r.ok THEN Failed(drop_unreferenced(SetObj(s0, h, r.page), g.keep), "err")
            ELSE delete_from(drop_unreferenced(SetObj(s0, h, r.page), g.keep),
                             next_page_id(r.page), where, g,
                             visited \cup {current_page_id}, r.count)
        fetched(f) ==
            IF ~f.ok THEN Failed(s, "err")
            ELSE IF f.hang \/ f.h \in g.r \cup g.w THEN Failed(f.s, "hang")
            ELSE deleted(f.s, f.h, delete_slots(f.s.objs[f.h], 0, where, count))
    IN  IF current_page_id = 0 THEN [Failed(s, "ok") EXCEPT !.count = count]
        ELSE IF current_page_id \in visited THEN Failed(s, "hang")
        ELSE fetched(fetch_page(s, current_page_id, g.w))

\* Executor::handle_delete
handle_delete(s, table, where) ==
    LET opened(t) ==
            IF t.st # "ok" THEN [Failed(t.s, t.st) EXCEPT !.why = t.why]
            ELSE delete_from(t.s, t.info.root_page_id, where, t.g, {}, 0)
    IN  opened(open_table(s, table))

\* the server started on the file as it is: Pager::open, then BufferPool::new and
\* register_pager with an empty cache
reopen(s) ==
    [s EXCEPT !.total_pages = Len(s.file), !.pages = <<>>, !.objs = <<>>]

(***************************************************************************)
(* State                                                                   *)
(***************************************************************************)
VARIABLES
    file,         \* Pager: the database file, page id p at file[p + 1]
    total_pages,  \* Pager.total_pages
    pages,        \* BufferPool.pages: the LruCache, most recently used first
    objs,         \* the live Page objects, by handle
    capacity,     \* the capacity BufferPool::new was given
    held,         \* buffer-pool specification: handles its callers hold
    bp_evicted,   \* ... by page id: the bytes a dirty page had when it was last evicted
    bp_last,      \* ... the last call and what it did
    sp,        \* slotted-page specification: the Page under test
    sp_orig,   \* ... bytes originally inserted, by slot id (index slot + 1)
    sp_dead,   \* ... slot ids passed to mark_deleted
    sp_last,   \* ... the last call and its result
    sp_calls,  \* ... insert_tuple calls made so far
    bt_root,   \* B+ tree specification: BTreeIndex.root_page_id
    bt_done,   \* ... key |-> value of the insert calls that returned Ok
    bt_tried,  \* ... keys passed to insert
    bt_last,   \* ... the last call and its result
    ex_rows,     \* executor specification: the rows of the Inserts that returned Ok
                 \*     since the table was created
    ex_clean,    \* ... the table exists, no Insert into it failed, no Update or Delete ran
    ex_writes,   \* ... Insert, Update and Delete queries made so far
    ex_restarts, \* ... restarts of the server so far
    ex_last,     \* ... the last query and its result
    pg_thread,   \* pager specification: by thread, the Pager call it is in
    pg_lock,     \* ... Pager.file: the thread that holds the Mutex, 0 when it is free
    pg_ret,      \* ... the allocate_page calls that returned, in order: [t, id,
                 \*     contended: another allocate_page was waiting for the file]
    pg_expect,   \* ... by page id: the bytes the last write_page of that id wrote
    pg_last,     \* ... the last call that returned and its result
    ct_inserts,  \* catalog specification: Insert queries made so far
    ct_last,     \* ... the last query, its result and the storage it started on
    bq_count,    \* batch specification: Batch queries made so far
    bq_last,     \* ... the last Batch, its result and the storage it started on
    os_results,  \* ordering specification: handle_select's results after the scan
    os_last,     \* ... the last Select's clauses and what it returned
    cc_thread,      \* concurrency specification: by thread, the query it runs, where
                    \*     it is in it, and the handles and guards it holds
    cc_pages_lock,  \* ... BufferPool.pages: the thread that holds the Mutex, 0: free
    cc_pagers_lock, \* ... BufferPool.pagers: the thread that holds the Mutex, 0: free
    cc_start,       \* ... the storage the server had before the queries came in
    au_users,     \* access specification: AccessControl.users, the usernames
    au_access,    \* ... AccessControl.access: the AclEntry list, in file order
    au_sessions,  \* ... AuthManager.sessions: token |-> username
    au_last,      \* ... the last call or request and its result
    lk_thread,      \* lock-order specification: by thread, the BufferPool call it is in
    lk_pages_lock,  \* ... BufferPool.pages: the thread that holds the Mutex, 0: free
    lk_pagers_lock, \* ... BufferPool.pagers: the thread that holds the Mutex, 0: free
    lk_calls,       \* ... calls made so far
    tb_deleted,   \* table specification: the rows the Deletes matched that returned
                  \*     since the last Insert or Update
    tb_writes,    \* ... Insert, Update and Delete queries made so far
    tb_restarts,  \* ... restarts of the server so far
    tb_last,      \* ... the last query and its result
    lr_order,     \* LRU specification: the page ids of the last `capacity` distinct
                  \*     pages that fetch_page or new_page returned, latest first
    fl_last,      \* filter specification: the last check_filter call and its result
    qc_cache,     \* query-cache specification: QueryCache.cache, the LruCache, most
                  \*     recently used first
    qc_ideal,     \* ... an LRU cache of the same capacity keyed by the query text
    qc_last       \* ... the last call and its result

poolVars == <<file, total_pages, pages, objs, capacity>>
bpVars == <<held, bp_evicted, bp_last>>
spVars == <<sp, sp_orig, sp_dead, sp_last, sp_calls>>
btVars == <<bt_root, bt_done, bt_tried, bt_last>>
exVars == <<ex_rows, ex_clean, ex_writes, ex_restarts, ex_last>>
pgVars == <<pg_thread, pg_lock, pg_ret, pg_expect, pg_last>>
\* the variables of the specifications further down
ctVars == <<ct_inserts, ct_last>>
bqVars == <<bq_count, bq_last>>
osVars == <<os_results, os_last>>
ccVars == <<cc_thread, cc_pages_lock, cc_pagers_lock, cc_start>>
auVars == <<au_users, au_access, au_sessions, au_last>>
lkVars == <<lk_thread, lk_pages_lock, lk_pagers_lock, lk_calls>>
tbVars == <<tb_deleted, tb_writes, tb_restarts, tb_last>>
lrVars == <<lr_order>>
flVars == <<fl_last>>
qcVars == <<qc_cache, qc_ideal, qc_last>>
lateVars == <<lrVars, flVars, qcVars>>
moreVars == <<auVars, lkVars, tbVars, lateVars>>
auxVars == <<pgVars, ctVars, bqVars, osVars, ccVars, moreVars>>
vars == <<poolVars, bpVars, spVars, btVars, exVars, auxVars>>

\* the store the operations work on, and its write-back into the variables
Store == [file |-> file, total_pages |-> total_pages, pages |-> pages,
          objs |-> objs, capacity |-> capacity]

SetStore(s) ==
    /\ file' = s.file
    /\ total_pages' = s.total_pages
    /\ pages' = s.pages
    /\ objs' = s.objs
    /\ capacity' = s.capacity

StoreIs(s) ==
    /\ file = s.file
    /\ total_pages = s.total_pages
    /\ pages = s.pages
    /\ objs = s.objs
    /\ capacity = s.capacity

\* values the variables of another specification rest at
PoolIdle ==
    /\ file = <<>> /\ total_pages = 0 /\ pages = <<>> /\ objs = <<>> /\ capacity = 1
BpIdle ==
    /\ held = {} /\ bp_evicted = <<>> /\ bp_last = [expect |-> None]
SpIdle ==
    /\ sp = PageNew(0) /\ sp_orig = <<>> /\ sp_dead = {}
    /\ sp_last = [op |-> "none"] /\ sp_calls = 0
BtIdle ==
    /\ bt_root = 0 /\ bt_done = <<>> /\ bt_tried = {} /\ bt_last = [op |-> "none"]
ExIdle ==
    /\ ex_rows = <<>> /\ ex_clean = FALSE /\ ex_writes = 0 /\ ex_restarts = 0
    /\ ex_last = [op |-> "none"]
PgIdle ==
    /\ pg_thread = <<>> /\ pg_lock = 0 /\ pg_ret = <<>> /\ pg_expect = <<>>
    /\ pg_last = [op |-> "none"]
CtIdle ==
    /\ ct_inserts = 0 /\ ct_last = [op |-> "none"]
BqIdle ==
    /\ bq_count = 0 /\ bq_last = [op |-> "none"]
OsIdle ==
    /\ os_results = <<>> /\ os_last = [op |-> "none"]
CcIdle ==
    /\ cc_thread = <<>> /\ cc_pages_lock = 0 /\ cc_pagers_lock = 0 /\ cc_start = <<>>
AuIdle ==
    au_users = {} /\ au_access = <<>> /\ au_sessions = <<>> /\ au_last = [op |-> "none"]
LkIdle ==
    lk_thread = <<>> /\ lk_pages_lock = 0 /\ lk_pagers_lock = 0 /\ lk_calls = 0
TbIdle ==
    tb_deleted = {} /\ tb_writes = 0 /\ tb_restarts = 0 /\ tb_last = [op |-> "none"]
LrIdle == lr_order = <<>>
FlIdle == fl_last = [op |-> "none"]
QcIdle == qc_cache = <<>> /\ qc_ideal = <<>> /\ qc_last = [op |-> "none"]
LateIdle == LrIdle /\ FlIdle /\ QcIdle
MoreIdle == AuIdle /\ LkIdle /\ TbIdle /\ LateIdle
AuxIdle == PgIdle /\ CtIdle /\ BqIdle /\ OsIdle /\ CcIdle /\ MoreIdle

\* Input byte strings: the runs 1 1 1 ... of every length 0..MaxTupleLen (the codec
\* shortens a run once it is longer than two bytes) and the alternation 0 1 0 ... of
\* length MaxTupleLen (which the codec never shortens).  Bodies made of 0 and 1 look
\* like flag bytes.
TupleInputs ==
    {[i \in 1..n |-> 1] : n \in 0..MaxTupleLen}
        \cup {[i \in 1..MaxTupleLen |-> (i + 1) % 2]}

\* slot ids tried by mark_deleted: every id the page can hold, and one beyond
MaxSlotId == (PAGE_SIZE - SLOTTED_HEADER_SIZE) \div (SLOT_SIZE + 1)

(***************************************************************************)
(* Specification of one slotted page (the unit tests' setting:             *)
(* Page::new(0), SlottedPage::new, init, then calls).                      *)
(***************************************************************************)
SlInit ==
    /\ sp = slotted_init(PageNew(0))
    /\ sp_orig = <<>>
    /\ sp_dead = {}
    /\ sp_last = [op |-> "init", ok |-> TRUE, slot |-> 0, compacted |-> FALSE]
    /\ sp_calls = 0
    /\ PoolIdle /\ BpIdle /\ BtIdle /\ ExIdle /\ AuxIdle

SlInsert ==
    \E b \in TupleInputs :
        /\ sp_calls < MaxInserts
        /\ sp_calls' = sp_calls + 1
        /\ LET r == insert_tuple(sp, b)
           IN  /\ sp' = r.page
               /\ sp_orig' = IF r.ok THEN Append(sp_orig, b) ELSE sp_orig
               /\ sp_last' = [op |-> "insert_tuple", ok |-> r.ok, slot |-> r.slot,
                              compacted |-> free_space(sp) < Len(final_data(b).data) + 1 + SLOT_SIZE]
        /\ UNCHANGED sp_dead

SlCompact ==
    /\ sp' = compact(sp)
    /\ sp_last' = [op |-> "compact", ok |-> TRUE, slot |-> 0, compacted |-> TRUE]
    /\ UNCHANGED <<sp_orig, sp_dead, sp_calls>>

SlMarkDeleted ==
    \E s \in 0..MaxSlotId :
        LET r == mark_deleted(sp, s)
        IN  /\ sp' = r.page
            /\ sp_dead' = IF r.ok THEN sp_dead \cup {s} ELSE sp_dead
            /\ sp_last' = [op |-> "mark_deleted", ok |-> r.ok, slot |-> 0, compacted |-> FALSE]
            /\ UNCHANGED <<sp_orig, sp_calls>>

SlNext ==
    \/ SlInsert /\ UNCHANGED <<poolVars, bpVars, btVars, exVars, auxVars>>
    \/ SlCompact /\ UNCHANGED <<poolVars, bpVars, btVars, exVars, auxVars>>
    \/ SlMarkDeleted /\ UNCHANGED <<poolVars, bpVars, btVars, exVars, auxVars>>

SpecSlotted == SlInit /\ [][SlNext]_vars

\* slot ids handed out so far
SlIds == 0..(Len(sp_orig) - 1)

\* C5: when insert_tuple(b) has just succeeded, get_tuple of the slot id it returned
\* is exactly b (empty b and b above the compression threshold included).
C5_InsertGetRoundTrip ==
    (sp_last.op = "insert_tuple" /\ sp_last.ok)
        => get_tuple(sp, sp_last.slot) = Some(sp_orig[Len(sp_orig)])

\* an empty tuple is stored, and the insert that just succeeded took the compressed form
C5_Witness ==
    /\ sp_last.op = "insert_tuple" /\ sp_last.ok
    /\ Len(sp_orig[Len(sp_orig)]) > COMPRESSION_THRESHOLD
    /\ final_data(sp_orig[Len(sp_orig)]).flag = 1
    /\ \E s \in SlIds : sp_orig[s + 1] = <<>> /\ get_tuple(sp, s) = Some(<<>>)

\* C6: after any inserts, compactions (explicit, or implied by an insert that is short
\* of space) and deletions, every slot id that was not deleted returns the bytes
\* originally inserted into it.
C6_CompactionPreservesTuples ==
    \A s \in SlIds : s \notin sp_dead => get_tuple(sp, s) = Some(sp_orig[s + 1])

\* an insert has just compacted the page to make room, and live tuples sit on both
\* sides of a reclaimed one
C6_Witness ==
    /\ sp_last.op = "insert_tuple" /\ sp_last.ok /\ sp_last.compacted
    /\ \E a, d, b \in SlIds : a < d /\ d < b /\ d \in sp_dead
                                /\ a \notin sp_dead /\ b \notin sp_dead
                                /\ Len(sp_orig[a + 1]) > 0 /\ Len(sp_orig[b + 1]) > 0

\* C7: successful inserts return 0, 1, 2, ... (so a tombstoned id is never handed out
\* again), and after any mark_deleted and compact every id handed out still resolves:
\* a live one to its bytes, a tombstoned one to None.
C7_SlotIdsStable ==
    /\ num_slots(sp) = Len(sp_orig)
    /\ (sp_last.op = "insert_tuple" /\ sp_last.ok) => sp_last.slot = Len(sp_orig) - 1
    /\ \A s \in SlIds :
          get_tuple(sp, s) = IF s \in sp_dead THEN None ELSE Some(sp_orig[s + 1])

\* an insert after a deletion and a compaction got a fresh id above the tombstone
C7_Witness ==
    /\ sp_last.op = "insert_tuple" /\ sp_last.ok /\ sp_last.compacted
    /\ \E d \in sp_dead : d < sp_last.slot /\ get_tuple(sp, d) = None
    /\ \E a \in SlIds : a \notin sp_dead /\ a < sp_last.slot


(***************************************************************************)
(* Specification of the buffer pool under callers that fetch and allocate  *)
(* pages, keep or drop the handles, write through handles they hold (with  *)
(* or without setting the dirty flag, as the repository's own callers do)  *)
(* and flush.  A caller takes a page's lock only for the duration of one   *)
(* write, so no guard is held across a call into the pool.                 *)
(***************************************************************************)
BpPageIds == 0..MaxPages

BpQuiet == [op |-> "none", expect |-> None, got |-> <<>>, victim_pinned |-> FALSE]

BpInit ==
    /\ file = <<>>
    /\ total_pages = 0
    /\ pages = <<>>
    /\ objs = <<>>
    /\ capacity \in 1..MaxCapacity
    /\ held = {}
    /\ bp_evicted = [p \in BpPageIds |-> None]
    /\ bp_last = BpQuiet
    /\ SpIdle /\ BtIdle /\ ExIdle /\ AuxIdle

\* Handles are renamed after every call so that one pool state has one name: the
\* object cached for page p is called p, the objects that are held but no longer
\* cached are called MaxPages + 1, MaxPages + 2, ... in the order of their old names.
Rename(s, keep) ==
    LET cached == {s.pages[i].h : i \in 1..Len(s.pages)}
        orphans == keep \ cached
        rank(h) == Cardinality({g \in orphans : g < h})
        name(h) == IF h \in cached
                   THEN s.pages[CHOOSE i \in 1..Len(s.pages) : s.pages[i].h = h].gid
                   ELSE MaxPages + 1 + rank(h)
        old(n) == CHOOSE h \in cached \cup orphans : name(h) = n
    IN  [s |-> [s EXCEPT !.pages = [i \in 1..Len(s.pages) |->
                                       [gid |-> s.pages[i].gid, h |-> s.pages[i].gid]],
                         !.objs = [n \in {name(h) : h \in cached \cup orphans} |-> s.objs[old(n)]]],
         held |-> {name(h) : h \in keep}]

\* the pool and the handles after a call: dropped objects are gone, names are settled
BpSettle(s, keep) ==
    LET settled(r) == SetStore(r.s) /\ held' = r.held
    IN  settled(Rename(drop_unreferenced(s, keep), keep))

\* what a fetch or an allocation leaves in the ghost variables
BpAfterPush(r, gid, expect) ==
    /\ bp_evicted' =
          [p \in BpPageIds |->
              IF r.evicted /\ p = r.victim.gid
              THEN (IF objs[r.victim.h].dirty THEN Some(objs[r.victim.h].data) ELSE None)
              ELSE IF p = gid /\ r.ok THEN None
              ELSE bp_evicted[p]]
    /\ bp_last' = [op |-> "push", expect |-> expect,
                   got |-> IF expect.some THEN r.s.objs[r.h].data ELSE <<>>,
                   victim_pinned |-> r.evicted /\ r.victim.h \in held]

BpFetch ==
    \E gid \in BpPageIds, keep \in BOOLEAN :
        LET fetched(r) ==
                /\ keep => Cardinality(held) < MaxHeld \/ (r.ok /\ r.h \in held)
                /\ BpSettle(r.s, IF r.ok /\ keep THEN held \cup {r.h} ELSE held)
                /\ BpAfterPush(r, gid, IF r.ok /\ ~r.hit THEN bp_evicted[gid] ELSE None)
        IN  fetched(fetch_page(Store, gid, {}))

BpNewPage ==
    \E keep \in BOOLEAN :
        /\ total_pages < MaxPages
        /\ keep => Cardinality(held) < MaxHeld
        /\ LET allocated(r) ==
                   /\ BpSettle(r.s, IF keep THEN held \cup {r.h} ELSE held)
                   /\ BpAfterPush(r, r.id, None)
           IN  allocated(new_page(Store, {}))

\* page.write(), a store into data[0], optionally guard.dirty = true
BpWrite ==
    \E h \in held, v \in WriteValues, d \in BOOLEAN :
        /\ objs' = [objs EXCEPT ![h].data[1] = v, ![h].dirty = @ \/ d]
        /\ bp_last' = BpQuiet
        /\ UNCHANGED <<file, total_pages, pages, capacity, held, bp_evicted>>

\* the caller drops its Arc
BpDrop ==
    \E h \in held :
        /\ BpSettle(Store, held \ {h})
        /\ bp_last' = BpQuiet
        /\ UNCHANGED bp_evicted

\* flush_all by a caller that holds no guard; bp_last keeps the cached pages that were
\* dirty and the file as it was when the call started
BpFlushAll ==
    /\ \E i \in 1..Len(pages) : objs[pages[i].h].dirty
    /\ SetStore(flush_all(Store, {}).s)
    /\ bp_last' = [op |-> "flush_all", expect |-> None, got |-> <<>>,
                   victim_pinned |-> FALSE,
                   dirty |-> {pages[i].gid : i \in {j \in 1..Len(pages) : objs[pages[j].h].dirty}},
                   before |-> file]
    /\ UNCHANGED <<held, bp_evicted>>

BpNext ==
    \/ BpFetch /\ UNCHANGED <<spVars, btVars, exVars, auxVars>>
    \/ BpNewPage /\ UNCHANGED <<spVars, btVars, exVars, auxVars>>
    \/ BpWrite /\ UNCHANGED <<spVars, btVars, exVars, auxVars>>
    \/ BpDrop /\ UNCHANGED <<spVars, btVars, exVars, auxVars>>
    \/ BpFlushAll /\ UNCHANGED <<spVars, btVars, exVars, auxVars>>

SpecPool == BpInit /\ [][BpNext]_vars

\* C3: a page evicted with its dirty flag set is on disk, byte for byte as it was at
\* the eviction, from the eviction until the page is fetched again, and that fetch (a
\* miss) returns exactly those bytes.
C3_DirtyEvictionWritten ==
    /\ \A p \in BpPageIds : bp_evicted[p].some => file[p + 1] = bp_evicted[p].val
    /\ bp_last.expect.some => bp_last.got = bp_last.expect.val

\* a page that had been written to and was evicted dirty has just been fetched again
C3_Witness ==
    /\ bp_last.expect.some
    /\ bp_last.expect.val[1] \in WriteValues

\* C4: the entry fetch_page or new_page evicts is never one whose handle a caller
\* still holds.
C4_NoPinnedVictim == ~bp_last.victim_pinned

\* the pages in the cache, by page id
BpCached == {pages[i].gid : i \in 1..Len(pages)}

\* C18: when flush_all has returned Ok, no cached page has its dirty flag set, the file
\* holds the cached bytes of every page that was dirty when the call started, and the
\* pages that were not dirty were not written.
C18_FlushAllClean ==
    bp_last.op = "flush_all"
        => /\ \A p \in BpCached : ~objs[HandleOf(Store, p)].dirty
           /\ \A p \in bp_last.dirty : file[p + 1] = objs[HandleOf(Store, p)].data
           /\ \A p \in 1..Len(file) : (p - 1) \notin bp_last.dirty => file[p] = bp_last.before[p]

\* flush_all has just written a dirty page and passed over a cached page whose bytes
\* differ from the file although its dirty flag is not set
C18_Witness ==
    /\ bp_last.op = "flush_all"
    /\ \E p \in bp_last.dirty : bp_last.before[p + 1] # file[p + 1]
    /\ \E p \in BpCached \ bp_last.dirty : objs[HandleOf(Store, p)].data # file[p + 1]

(***************************************************************************)
(* Specification of one BTreeIndex over a buffer pool (the unit tests'     *)
(* setting: a fresh file, allocate_page for page 0 and for the root,       *)
(* BufferPool::new, BTreeIndex::new(root), init, then insert and search    *)
(* calls by one thread).  Keys passed to insert are pairwise distinct.     *)
(* A call that never returns ends the run.                                 *)
(***************************************************************************)
BtKeys == 1..MaxKey

\* locators (page id, slot id) stored as values
BtLocators == {<<2, 0>>, <<3, 1>>}

\* the store between two calls: no handle is held, names are settled
Settle(s) == Rename(drop_unreferenced(s, {}), {}).s

BtInit ==
    /\ bt_root = 1
    /\ \E c \in 1..MaxBtCapacity :
          LET s0 == [file |-> <<>>, total_pages |-> 0, pages |-> <<>>, objs |-> <<>>,
                     capacity |-> c]
          IN  StoreIs(Settle(btree_init(allocate_page(allocate_page(s0)), 1, NoGuards).s))
    /\ bt_done = <<>>
    /\ bt_tried = {}
    /\ bt_last = [op |-> "init", key |-> 0, st |-> "ok", val |-> None]
    /\ BpIdle /\ SpIdle /\ ExIdle /\ AuxIdle

BtInsert ==
    \E key \in BtKeys \ bt_tried, value \in BtLocators :
        LET returned(r) ==
                /\ bt_last.st # "hang"
                /\ SetStore(Settle(r.s))
                /\ bt_tried' = bt_tried \cup {key}
                /\ bt_done' = IF r.st = "ok" THEN (key :> value) @@ bt_done ELSE bt_done
                /\ bt_last' = [op |-> "insert", key |-> key, st |-> r.st, val |-> None]
                /\ UNCHANGED bt_root
        IN  returned(btree_insert(Store, bt_root, key, value, NoGuards))

BtSearch ==
    \E key \in BtKeys :
        LET returned(r) ==
                /\ bt_last.st # "hang"
                /\ SetStore(Settle(r.s))
                /\ bt_last' = [op |-> "search", key |-> key, st |-> r.st, val |-> r.val]
                /\ UNCHANGED <<bt_root, bt_done, bt_tried>>
        IN  returned(btree_search(Store, bt_root, key, NoGuards))

BtNext ==
    \/ BtInsert /\ UNCHANGED <<bpVars, spVars, exVars, auxVars>>
    \/ BtSearch /\ UNCHANGED <<bpVars, spVars, exVars, auxVars>>

SpecBTree == BtInit /\ [][BtNext]_vars

\* the keys of leaf p, in entry order
leaf_keys(p) == [i \in 1..num_keys(p) |-> get_key(p, i - 1)]

\* the keys met on the next_leaf chain from leaf page id on, in the order of the walk
\* (the chain ends at next_leaf = 0, at a page that cannot be fetched, or where it
\* comes back to a page already walked)
RECURSIVE chain_keys(_, _, _)
chain_keys(s, id, walked) ==
    LET f == fetch_page(s, id, {})
    IN  IF id = 0 \/ id \in walked \/ ~f.ok THEN <<>>
        ELSE leaf_keys(f.s.objs[f.h])
                 \o chain_keys(Settle(f.s), next_leaf(f.s.objs[f.h]), walked \cup {id})

\* the walk from the leftmost leaf: the leaf find_leaf reaches for key 0, which is
\* below every key inserted
LeafChain ==
    LET fl == find_leaf(Store, bt_root, 0, NoGuards)
    IN  IF fl.st = "ok" THEN chain_keys(fl.s, fl.id, {}) ELSE <<>>

\* no page has been pushed out of the cache so far
BtNoEviction == Len(pages) < capacity

\* C1: search(k) returns the value of the insert call that returned Ok for k, and
\* None for a key never passed to insert -- whatever the number of distinct keys
\* inserted, more than LEAF_ORDER included.
C1_SearchReturnsInserted ==
    (bt_last.op = "search" /\ BtNoEviction)
        => /\ bt_last.st = "ok"
           /\ bt_last.key \in DOMAIN bt_done => bt_last.val = Some(bt_done[bt_last.key])
           /\ bt_last.key \notin bt_tried => bt_last.val = None

\* C8: after any insert calls with distinct keys, the walk along next_leaf from the
\* leftmost leaf meets the keys in strictly ascending order.
C8_LeafChainAscending ==
    BtNoEviction =>
        \A i, j \in 1..Len(LeafChain) : i < j => LeafChain[i] < LeafChain[j]

(***************************************************************************)
(* Specification of the Executor on the database file run_init creates     *)
(* (main.rs): page 0 holds the DatabaseHeader, page 1 the empty catalog.   *)
(* The server starts on it with an empty buffer pool and runs queries on   *)
(* the table "t" one after the other; it can be stopped after flush_all    *)
(* and started again.  Rows are objects with the fields id and v.  A query *)
(* that never returns ends the run.                                        *)
(***************************************************************************)
\* DatabaseHeader::to_bytes, as far as the scaled page reaches: MAGIC, the format
\* version, the engine version string (taken to be "0.1.0") and page_size; the
\* timestamps that follow are left zero
HeaderBytes ==
    <<82, 68, 66, 70, 73, 76, 69>> \o <<1, 0, 0, 0>> \o <<5, 0>> \o <<48, 46, 49, 46, 48>>
        \o <<PAGE_SIZE, 0, 0, 0>> \o Zeros(PAGE_SIZE - 22)

RowInputs == {[id |-> i, v |-> 1] : i \in 1..MaxId}

WhereInputs == {None} \cup {Where("id", k) : k \in 1..MaxId}

ColumnInputs == {<<"*">>}

\* the clauses of Update and Delete
RewriteInputs == {None, Where("id", 1)}

ExInit ==
    /\ file = <<HeaderBytes, catalog_store(PageNew(1), catalog_to_bytes(CatalogNew)).data>>
    /\ total_pages = 2
    /\ pages = <<>>
    /\ objs = <<>>
    /\ capacity \in (1..MaxExCapacity) \cup {MaxExPages}
    /\ ex_rows = <<>>
    /\ ex_clean = FALSE
    /\ ex_writes = 0
    /\ ex_restarts = 0
    /\ ex_last = [op |-> "init", st |-> "ok"]
    /\ BpIdle /\ SpIdle /\ BtIdle /\ AuxIdle

ExRunning == ex_last.st # "hang"

ExCreateTable ==
    \E primary_key \in BOOLEAN :
        LET returned(r) ==
                /\ SetStore(Settle(r.s))
                /\ ex_rows' = IF r.st = "ok" THEN <<>> ELSE ex_rows
                /\ ex_clean' = IF r.st = "ok" THEN TRUE ELSE ex_clean
                /\ ex_last' = [op |-> "create_table", st |-> r.st]
                /\ UNCHANGED <<ex_writes, ex_restarts>>
        IN  /\ ExRunning
            /\ total_pages + 2 <= MaxExPages
            /\ returned(handle_create_table(Store, "t", primary_key))

ExDropTable ==
    LET returned(r) ==
            /\ SetStore(Settle(r.s))
            /\ ex_rows' = IF r.st = "ok" THEN <<>> ELSE ex_rows
            /\ ex_clean' = IF r.st = "ok" THEN FALSE ELSE ex_clean
            /\ ex_last' = [op |-> "drop_table", st |-> r.st]
            /\ UNCHANGED <<ex_writes, ex_restarts>>
    IN  /\ ExRunning
        /\ returned(handle_drop_table(Store, "t"))

ExInsert ==
    \E row \in RowInputs :
        LET returned(r) ==
                /\ ex_writes' = ex_writes + 1
                /\ SetStore(Settle(r.s))
                /\ ex_rows' = IF r.st = "ok" THEN Append(ex_rows, row) ELSE ex_rows
                /\ ex_clean' = (ex_clean /\ r.st = "ok")
                /\ ex_last' = [op |-> "insert", st |-> r.st]
                /\ UNCHANGED ex_restarts
        IN  /\ ExRunning
            /\ ex_writes < MaxExWrites
            /\ total_pages + 3 <= MaxExPages
            /\ returned(handle_insert(Store, "t", <<row>>))

\* the scan of the table with the clause applied by check_filter, whatever path
\* handle_select takes for it: [st, rows]
filtered_scan(s, table, columns, where) ==
    LET scanned(r) == [st |-> r.st, rows |-> r.rows]
        opened(t) ==
            IF t.st # "ok" THEN [st |-> t.st, rows |-> <<>>]
            ELSE scanned(scan_from(t.s, t.info.root_page_id, where, columns, t.g, {}, <<>>))
    IN  opened(open_table(s, table))

ExSelect ==
    \E where \in WhereInputs, columns \in ColumnInputs :
        LET returned(r) ==
                /\ SetStore(Settle(r.s))
                /\ ex_last' = [op |-> "select", st |-> r.st, where |-> where,
                               columns |-> columns, rows |-> r.rows,
                               scan |-> filtered_scan(Store, "t", columns, where)]
                /\ UNCHANGED <<ex_rows, ex_clean, ex_writes, ex_restarts>>
        IN  /\ ExRunning
            /\ returned(handle_select(Store, "t", columns, where))

ExUpdate ==
    \E where \in RewriteInputs :
        LET returned(r) ==
                /\ SetStore(Settle(r.s))
                /\ ex_clean' = FALSE
                /\ ex_last' = [op |-> "update", st |-> r.st, count |-> r.count]
                /\ ex_writes' = ex_writes + 1
                /\ UNCHANGED <<ex_rows, ex_restarts>>
        IN  /\ ExRunning
            /\ ex_writes < MaxExWrites
            /\ returned(handle_update(Store, "t", [v |-> 2], where))

ExDelete ==
    \E where \in RewriteInputs :
        LET returned(r) ==
                /\ SetStore(Settle(r.s))
                /\ ex_clean' = FALSE
                /\ ex_last' = [op |-> "delete", st |-> r.st, count |-> r.count]
                /\ ex_writes' = ex_writes + 1
                /\ UNCHANGED <<ex_rows, ex_restarts>>
        IN  /\ ExRunning
            /\ ex_writes < MaxExWrites
            /\ returned(handle_delete(Store, "t", where))

\* what the queries of a client return on store s: the full scan and the lookup of
\* every id
Answers(s) ==
    [where \in WhereInputs |->
        LET answer(r) == [st |-> r.st, rows |-> r.rows]
        IN  answer(handle_select(s, "t", <<"*">>, where))]

\* flush_all, then the server is stopped and started again on the file
ExReopen ==
    LET started(s) ==
            /\ SetStore(s)
            /\ ex_last' = [op |-> "reopen", st |-> "ok", before |-> Answers(Store),
                           after |-> Answers(s)]
            /\ ex_restarts' = ex_restarts + 1
            /\ UNCHANGED <<ex_rows, ex_clean, ex_writes>>
    IN  /\ ExRunning
        /\ ex_restarts < MaxExRestarts
        /\ started(reopen(flush_all(Store, {}).s))

ExNext ==
    \/ ExCreateTable /\ UNCHANGED <<bpVars, spVars, btVars, auxVars>>
    \/ ExDropTable /\ UNCHANGED <<bpVars, spVars, btVars, auxVars>>
    \/ ExInsert /\ UNCHANGED <<bpVars, spVars, btVars, auxVars>>
    \/ ExSelect /\ UNCHANGED <<bpVars, spVars, btVars, auxVars>>
    \/ ExUpdate /\ UNCHANGED <<bpVars, spVars, btVars, auxVars>>
    \/ ExDelete /\ UNCHANGED <<bpVars, spVars, btVars, auxVars>>
    \/ ExReopen /\ UNCHANGED <<bpVars, spVars, btVars, auxVars>>

SpecExec == ExInit /\ [][ExNext]_vars

\* occurrences of x in sequence q
Count(q, x) == Cardinality({i \in DOMAIN q : q[i] = x})

\* two sequences hold the same elements, each as often
SameBag(a, b) == Len(a) = Len(b) /\ \A i \in DOMAIN a : Count(a, a[i]) = Count(b, a[i])

\* rows of the model that fit one heap page
RowsPerPage ==
    (PAGE_SIZE - SLOTTED_HEADER_SIZE) \div (Len(row_to_vec([id |-> 1, v |-> 1])) + 1 + SLOT_SIZE)

\* every page of the file has room in the cache, so no page was ever pushed out
ExNoEviction == MaxExPages <= capacity

\* C2: when exactly one live row of the table has primary key k, the Select with
\* where id = k returns what the heap scan filtered by check_filter returns (here with
\* a cache that never evicts, on a server that was not restarted).
C2_IndexPathAgreesWithScan ==
    (/\ ex_last.op = "select" /\ ex_last.where.some
     /\ ExNoEviction /\ ex_restarts = 0
     /\ ex_last.scan.st = "ok" /\ Len(ex_last.scan.rows) = 1)
        => /\ ex_last.st = "ok"
           /\ SameBag(ex_last.rows, ex_last.scan.rows)

\* C9: after flush_all and a restart on the file, the full scan and the lookup of every
\* id return what they returned before (here with a cache that never evicts).
C9_ReopenKeepsAnswers ==
    (ex_last.op = "reopen" /\ ExNoEviction) => ex_last.after = ex_last.before

\* C10: after CreateTable and Inserts that all returned Ok, with no Update or Delete,
\* Select * without a where clause returns exactly the rows inserted, each as often as
\* it was inserted, also when the rows spill into linked pages.
C10_ScanReturnsInserted ==
    (ex_last.op = "select" /\ ~ex_last.where.some /\ ex_last.columns = <<"*">> /\ ex_clean)
        => /\ ex_last.st = "ok"
           /\ SameBag(ex_last.rows, ex_rows)

\* more rows than one page holds were inserted and the scan has just returned them
C10_Witness ==
    /\ ex_last.op = "select" /\ ~ex_last.where.some /\ ex_clean
    /\ Len(ex_rows) > RowsPerPage
    /\ Len(ex_last.rows) = Len(ex_rows)


(***************************************************************************)
(* Specification of one Pager (storage/pager.rs) under threads that call   *)
(* allocate_page, read_page and write_page.  Each call is split at its     *)
(* statements: file.lock(), the access to total_pages, the file access,    *)
(* the return that drops the MutexGuard.  The file starts with one page.   *)
(***************************************************************************)
PgThreads == 1..MaxPgThreads

PgPageIds == 0..(MaxPgPages - 1)

\* total_pages when the Pager was opened
PgBase == 1

\* page buffers passed to write_page
PgBuffers == {[i \in 1..PAGE_SIZE |-> IF i = 1 THEN b ELSE 0] : b \in {0, 7, 9}}

\* a thread that is in no call
PgRest == [pc |-> "idle", op |-> "none", id |-> 0, data |-> Zeros(PAGE_SIZE),
           ok |-> FALSE, page |-> PageNew(0), expect |-> None]

PgInit ==
    /\ file = <<[i \in 1..PAGE_SIZE |-> IF i = 1 THEN 7 ELSE 0]>>
    /\ total_pages = PgBase
    /\ pages = <<>> /\ objs = <<>> /\ capacity = 1
    /\ pg_thread = [t \in PgThreads |-> PgRest]
    /\ pg_lock = 0
    /\ pg_ret = <<>>
    /\ pg_expect = [p \in PgPageIds |-> None]
    /\ pg_last = [op |-> "none"]
    /\ BpIdle /\ SpIdle /\ BtIdle /\ ExIdle /\ CtIdle /\ BqIdle /\ OsIdle /\ CcIdle /\ MoreIdle

\* allocate_page calls that have not reached fetch_add yet
PgPending == {t \in PgThreads : pg_thread[t].op = "allocate_page"
                                /\ pg_thread[t].pc \in {"lock", "fetch_add"}}

\* a thread enters a call
PgCall(t) ==
    /\ pg_thread[t].pc = "idle"
    /\ \/ /\ total_pages + Cardinality(PgPending) < MaxPgPages
          /\ pg_thread' = [pg_thread EXCEPT ![t] = [PgRest EXCEPT !.pc = "lock",
                                                                 !.op = "allocate_page"]]
       \/ \E id \in PgPageIds :
              pg_thread' = [pg_thread EXCEPT ![t] = [PgRest EXCEPT !.pc = "lock",
                                                                   !.op = "read_page",
                                                                   !.id = id]]
       \/ \E id \in PgPageIds, data \in PgBuffers :
              /\ id < total_pages
              /\ pg_thread' = [pg_thread EXCEPT ![t] = [PgRest EXCEPT !.pc = "lock",
                                                                     !.op = "write_page",
                                                                     !.id = id,
                                                                     !.data = data]]
    /\ UNCHANGED <<poolVars, pg_lock, pg_ret, pg_expect, pg_last>>

\* the Mutex around the file can be taken
mutex_free(holder) == holder = 0

\* self.file.lock()
PgLock(t) ==
    /\ pg_thread[t].pc = "lock"
    /\ mutex_free(pg_lock)
    /\ pg_lock' = t
    /\ pg_thread' = [pg_thread EXCEPT ![t].pc =
                        CASE pg_thread[t].op = "allocate_page" -> "fetch_add"
                          [] pg_thread[t].op = "read_page" -> "load"
                          [] pg_thread[t].op = "write_page" -> "write_all"]
    /\ UNCHANGED <<poolVars, pg_ret, pg_expect, pg_last>>

\* allocate_page: let page_id = self.total_pages.fetch_add(1, SeqCst)
PgFetchAdd(t) ==
    /\ pg_thread[t].pc = "fetch_add"
    /\ total_pages' = fetch_add(total_pages).new
    /\ pg_thread' = [pg_thread EXCEPT ![t].pc = "extend",
                                      ![t].id = fetch_add(total_pages).old]
    /\ UNCHANGED <<file, pages, objs, capacity, pg_lock, pg_ret, pg_expect, pg_last>>

\* allocate_page: "Write empty page to extend file"
PgExtend(t) ==
    /\ pg_thread[t].pc = "extend"
    /\ file' = file_write_at(file, pg_thread[t].id, PageNew(pg_thread[t].id).data)
    /\ pg_thread' = [pg_thread EXCEPT ![t].pc = "ret", ![t].ok = TRUE]
    /\ pg_expect' = [p \in PgPageIds |-> IF p = pg_thread[t].id THEN None ELSE pg_expect[p]]
    /\ UNCHANGED <<total_pages, pages, objs, capacity, pg_lock, pg_ret, pg_last>>

\* read_page: total_pages.load and the bounds check
PgLoad(t) ==
    /\ pg_thread[t].pc = "load"
    /\ pg_thread' = [pg_thread EXCEPT ![t].pc =
                        IF pg_thread[t].id >= total_pages THEN "ret" ELSE "read_exact"]
    /\ UNCHANGED <<poolVars, pg_lock, pg_ret, pg_expect, pg_last>>

\* read_page: seek, read_exact, Page::from_bytes
PgReadExact(t) ==
    /\ pg_thread[t].pc = "read_exact"
    /\ LET read(r) ==
               pg_thread' = [pg_thread EXCEPT
                                ![t].pc = "ret", ![t].ok = r.ok,
                                ![t].page = PageFromBytes(pg_thread[t].id, r.data),
                                ![t].expect = pg_expect[pg_thread[t].id]]
       IN  read(file_read_exact(file, pg_thread[t].id))
    /\ UNCHANGED <<poolVars, pg_lock, pg_ret, pg_expect, pg_last>>

\* write_page: seek, write_all
PgWriteAll(t) ==
    /\ pg_thread[t].pc = "write_all"
    /\ file' = file_write_at(file, pg_thread[t].id, pg_thread[t].data)
    /\ pg_expect' = [pg_expect EXCEPT ![pg_thread[t].id] = Some(pg_thread[t].data)]
    /\ pg_thread' = [pg_thread EXCEPT ![t].pc = "ret", ![t].ok = TRUE]
    /\ UNCHANGED <<total_pages, pages, objs, capacity, pg_lock, pg_ret, pg_last>>

\* the call returns and the MutexGuard is dropped
PgReturn(t) ==
    /\ pg_thread[t].pc = "ret"
    /\ pg_lock' = 0
    /\ pg_ret' = IF pg_thread[t].op = "allocate_page"
                 THEN Append(pg_ret,
                             [t |-> t, id |-> pg_thread[t].id,
                              contended |-> \E u \in PgThreads \ {t} :
                                               /\ pg_thread[u].op = "allocate_page"
                                               /\ pg_thread[u].pc = "lock"])
                 ELSE pg_ret
    /\ pg_last' = [op |-> pg_thread[t].op, id |-> pg_thread[t].id, ok |-> pg_thread[t].ok,
                   page |-> pg_thread[t].page, expect |-> pg_thread[t].expect,
                   allocated |-> \E i \in 1..Len(pg_ret) : pg_ret[i].id = pg_thread[t].id]
    /\ pg_thread' = [pg_thread EXCEPT ![t] = PgRest]
    /\ UNCHANGED <<poolVars, pg_expect>>

pgOthers == <<bpVars, spVars, btVars, exVars, ctVars, bqVars, osVars, ccVars, moreVars>>

PgNext ==
    \/ \E t \in PgThreads : PgCall(t) /\ UNCHANGED pgOthers
    \/ \E t \in PgThreads : PgLock(t) /\ UNCHANGED pgOthers
    \/ \E t \in PgThreads : PgFetchAdd(t) /\ UNCHANGED pgOthers
    \/ \E t \in PgThreads : PgExtend(t) /\ UNCHANGED pgOthers
    \/ \E t \in PgThreads : PgLoad(t) /\ UNCHANGED pgOthers
    \/ \E t \in PgThreads : PgReadExact(t) /\ UNCHANGED pgOthers
    \/ \E t \in PgThreads : PgWriteAll(t) /\ UNCHANGED pgOthers
    \/ \E t \in PgThreads : PgReturn(t) /\ UNCHANGED pgOthers

SpecPager == PgInit /\ [][PgNext]_vars

\* the allocate_page calls past fetch_add that have not returned
PgInFlight == {t \in PgThreads : pg_thread[t].op = "allocate_page"
                                 /\ pg_thread[t].pc \in {"extend", "ret"}}

\* the page ids handed out so far
PgClaimed ==
    {pg_ret[i].id : i \in 1..Len(pg_ret)} \cup {pg_thread[t].id : t \in PgInFlight}

\* C12: under every interleaving of the threads' calls, the ids allocate_page hands out
\* are pairwise distinct and are exactly the values from the total_pages of the start
\* up to total_pages - 1; a page whose allocate_page has returned is read by read_page,
\* as zeros unless write_page has written it since.
C12_AllocateDistinctIds ==
    /\ Cardinality(PgClaimed) = Len(pg_ret) + Cardinality(PgInFlight)
    /\ PgClaimed = PgBase..(total_pages - 1)
    /\ \A i \in 1..Len(pg_ret) :
          /\ read_page(Store, pg_ret[i].id).ok
          /\ ~pg_expect[pg_ret[i].id].some
                => read_page(Store, pg_ret[i].id).page.data = Zeros(PAGE_SIZE)
    /\ (pg_last.op = "read_page" /\ pg_last.allocated) => pg_last.ok

\* both threads have had an allocate_page return, one of them while the other one was
\* inside its own call and waiting for the file
C12_Witness ==
    /\ \E i, j \in 1..Len(pg_ret) : pg_ret[i].t # pg_ret[j].t /\ pg_ret[i].contended
    /\ pg_last.op = "read_page" /\ pg_last.allocated /\ pg_last.ok

\* C20: read_page of a page id returns the bytes of the last write_page of that id,
\* with dirty = false, whatever calls on other page ids and allocate_page calls ran in
\* between.
C20_WriteReadRoundTrip ==
    (pg_last.op = "read_page" /\ pg_last.expect.some)
        => /\ pg_last.ok
           /\ pg_last.page = [id |-> pg_last.id, data |-> pg_last.expect.val, dirty |-> FALSE]

\* a page written with nonzero bytes has been read back after the file had grown and
\* another page had been written with other bytes
C20_Witness ==
    /\ pg_last.op = "read_page" /\ pg_last.expect.some /\ pg_last.ok
    /\ pg_last.page.data # Zeros(PAGE_SIZE)
    /\ total_pages > PgBase
    /\ \E p \in PgPageIds \ {pg_last.id} :
          pg_expect[p].some /\ pg_expect[p].val # pg_last.expect.val


(***************************************************************************)
(* Specification of the Executor's catalog handling: CreateTable,          *)
(* DropTable and Insert queries on two table names, one query at a time,   *)
(* on a server started on an initialized database file.                    *)
(***************************************************************************)
\* the bytes a fetch_page of page p would hand out now: the cached object's, or the
\* file's
Peek(s, p) ==
    IF CachedAt(s, p) # {} THEN s.objs[HandleOf(s, p)].data ELSE s.file[p + 1]

\* the dirty flag of page p's cached object; a page that is not cached is loaded clean
PeekDirty(s, p) == CachedAt(s, p) # {} /\ s.objs[HandleOf(s, p)].dirty

\* the catalog a query starting now reads from page 1
CatalogOf(s) == catalog_from_bytes(Peek(s, 1)).val

\* the pages linked from heap page p through next_page_id
RECURSIVE HeapChain(_, _, _)
HeapChain(s, p, seen) ==
    IF p = 0 \/ p \in seen \/ p >= Len(s.file) THEN seen
    ELSE HeapChain(s, next_page_id(PageFromBytes(p, Peek(s, p))), seen \cup {p})

\* the page ids an index node links to: next_leaf, and the children of an internal node
NodeLinks(node) ==
    {next_leaf(node)}
        \cup (IF is_leaf(node) \/ num_keys(node) = 0 THEN {}
              ELSE {pointer_at(node, BTREE_HEADER_SIZE).id}
                       \cup {pointer_at(node, BTREE_HEADER_SIZE + 4 + i * (KEY_SIZE + 4)
                                                  + KEY_SIZE).id :
                                i \in 0..(num_keys(node) - 1)})

\* the pages linked, directly or not, from the index pages in todo
RECURSIVE IndexPages(_, _, _)
IndexPages(s, todo, seen) ==
    IF todo = {} THEN seen
    ELSE LET p == CHOOSE x \in todo : TRUE
         IN  IF p = 0 \/ p \in seen \/ p >= Len(s.file)
             THEN IndexPages(s, todo \ {p}, seen)
             ELSE IndexPages(s, (todo \ {p}) \cup NodeLinks(PageFromBytes(p, Peek(s, p))),
                             seen \cup {p})

\* the pages of a table: its heap chain and its index
TablePages(s, info) ==
    HeapChain(s, info.root_page_id, {}) \cup IndexPages(s, {info.index_root_page_id}, {})

\* what a query starts on
Snapshot(s) ==
    [total_pages |-> s.total_pages, catalog |-> CatalogOf(s),
     cat_bytes |-> Peek(s, 1), cat_dirty |-> PeekDirty(s, 1),
     data |-> [p \in 2..(s.total_pages - 1) |-> Peek(s, p)]]

CtInit ==
    /\ file = <<HeaderBytes, catalog_store(PageNew(1), catalog_to_bytes(CatalogNew)).data>>
    /\ total_pages = 2
    /\ pages = <<>>
    /\ objs = <<>>
    /\ capacity \in {3, MaxCtPages}
    /\ ct_inserts = 0
    /\ ct_last = [op |-> "init", st |-> "ok"]
    /\ BpIdle /\ SpIdle /\ BtIdle /\ ExIdle /\ PgIdle /\ BqIdle /\ OsIdle /\ CcIdle /\ MoreIdle

CtRunning == ct_last.st # "hang"

CtReturned(op, table, r) ==
    /\ SetStore(Settle(r.s))
    /\ ct_last' = [op |-> op, table |-> table, st |-> r.st, why |-> r.why,
                   before |-> Snapshot(Store)]

CtCreateTable ==
    \E table \in TableNames, primary_key \in BOOLEAN :
        /\ CtRunning
        /\ total_pages + 2 <= MaxCtPages
        /\ CtReturned("create_table", table, handle_create_table(Store, table, primary_key))
        /\ UNCHANGED ct_inserts

CtDropTable ==
    \E table \in TableNames :
        /\ CtRunning
        /\ CtReturned("drop_table", table, handle_drop_table(Store, table))
        /\ UNCHANGED ct_inserts

CtInsert ==
    \E table \in TableNames, row \in RowInputs :
        /\ CtRunning
        /\ ct_inserts < MaxCtInserts
        /\ total_pages + 3 <= MaxCtPages
        /\ CtReturned("insert", table, handle_insert(Store, table, <<row>>))
        /\ ct_inserts' = ct_inserts + 1

ctOthers == <<bpVars, spVars, btVars, exVars, pgVars, bqVars, osVars, ccVars, moreVars>>

CtNext ==
    \/ CtCreateTable /\ UNCHANGED ctOthers
    \/ CtDropTable /\ UNCHANGED ctOthers
    \/ CtInsert /\ UNCHANGED ctOthers

SpecCatalog == CtInit /\ [][CtNext]_vars

\* C14: CreateTable for a name that is in the catalog fails with "already exists";
\* total_pages and the catalog page's bytes and dirty flag are what they were.
C14_CreateExistingChangesNothing ==
    (ct_last.op = "create_table" /\ ct_last.table \in DOMAIN ct_last.before.catalog)
        => /\ ct_last.st = "err" /\ ct_last.why = "exists"
           /\ total_pages = ct_last.before.total_pages
           /\ Peek(Store, 1) = ct_last.before.cat_bytes
           /\ PeekDirty(Store, 1) = ct_last.before.cat_dirty

\* CreateTable for an existing name has just failed, on a catalog page that was dirty
C14_Witness ==
    /\ ct_last.op = "create_table" /\ ct_last.table \in DOMAIN ct_last.before.catalog
    /\ ct_last.why = "exists"
    /\ ct_last.before.cat_dirty

\* C15: for each table in the catalog, root_page_id and index_root_page_id are at least
\* 2, below total_pages, different from each other, and are not among the heap-chain
\* and index pages (roots included) of any other table in the catalog.
C15_RootsExclusive ==
    \A n \in DOMAIN CatalogOf(Store) :
        LET info == CatalogOf(Store)[n]
            roots == {info.root_page_id, info.index_root_page_id}
        IN  /\ \A r \in roots : r >= 2 /\ r < total_pages
            /\ info.root_page_id # info.index_root_page_id
            /\ \A m \in DOMAIN CatalogOf(Store) \ {n} :
                  roots \cap TablePages(Store, CatalogOf(Store)[m]) = {}

\* two tables are in the catalog, one of them with a heap chain of two pages and an
\* index whose root leaf is linked to a second leaf
C15_Witness ==
    /\ Cardinality(DOMAIN CatalogOf(Store)) = 2
    /\ \E n \in DOMAIN CatalogOf(Store) :
          /\ Cardinality(HeapChain(Store, CatalogOf(Store)[n].root_page_id, {})) >= 2
          /\ Cardinality(IndexPages(Store, {CatalogOf(Store)[n].index_root_page_id}, {})) >= 2

\* the queries on a table name, run on store s, all fail with "Table {} not found"
AllNotFound(s, table) ==
    /\ handle_insert(s, table, <<[id |-> 1, v |-> 1]>>).why = "not_found"
    /\ \A where \in WhereInputs :
          /\ handle_select(s, table, <<"*">>, where).why = "not_found"
          /\ handle_update(s, table, [v |-> 2], where).why = "not_found"
          /\ handle_delete(s, table, where).why = "not_found"

Query(op, table, arg) == [op |-> op, table |-> table, arg |-> arg]

\* Mutant of sub_query_failed: the ? of handle_batch never returns early.
sub_query_failed_never(r) == FALSE

\* self.execute(query)? in handle_batch: the Err (a hang and a panic likewise) leaves
\* the loop
sub_query_failed(r) == r.st # "ok"

\* what handle_batch pushes for the ExecutionResult of a sub-query: the message of
\* ExecutionResult::Message (its text stands for "Table {} created", "Inserted",
\* "Updated {} rows", ...), the value of ExecutionResult::Json
pushed(query, r) ==
    IF query.op \in {"select", "batch"} THEN [json |-> r.rows]
    ELSE [message |-> query.op, table |-> query.table, count |-> r.count]

RECURSIVE execute(_, _)
RECURSIVE handle_batch(_, _, _)

\* Executor::execute
execute(s, query) ==
    CASE query.op = "create_table" -> handle_create_table(s, query.table, query.arg)
      [] query.op = "drop_table" -> handle_drop_table(s, query.table)
      [] query.op = "insert" -> handle_insert(s, query.table, query.arg)
      [] query.op = "select" -> handle_select(s, query.table, <<"*">>, query.arg)
      [] query.op = "update" -> handle_update(s, query.table, [v |-> 2], query.arg)
      [] query.op = "delete" -> handle_delete(s, query.table, query.arg)
      [] query.op = "batch" -> handle_batch(s, query.arg, <<>>)

\* Executor::handle_batch with results collected so far; the handles and guards of a
\* sub-query are dropped when it returns
handle_batch(s, queries, results) ==
    LET executed(r) ==
            IF sub_query_failed(r) THEN [Failed(r.s, r.st) EXCEPT !.why = r.why]
            ELSE handle_batch(Settle(r.s), Tail(queries),
                              Append(results, pushed(Head(queries), r)))
    IN  IF queries = <<>> THEN [Failed(s, "ok") EXCEPT !.rows = results]
        ELSE executed(execute(s, Head(queries)))

\* the sub-queries of the batches
BqQueries ==
    {Query("create_table", "t", TRUE),
     Query("insert", "t", <<[id |-> 1, v |-> 1]>>),
     Query("select", "t", None),
     Query("delete", "t", Where("id", 1)),
     Query("drop_table", "t", FALSE),
     Query("batch", "", <<Query("insert", "t", <<[id |-> 2, v |-> 1]>>),
                          Query("drop_table", "u", FALSE)>>)}

BqBatches == UNION {[1..n -> BqQueries] : n \in 0..MaxBatchLen}

\* a capacity no sequence of batches fills
MaxBqPages == 2 + 3 * (MaxBatchLen + 1) * MaxBatches

BqInit ==
    /\ file = <<HeaderBytes, catalog_store(PageNew(1), catalog_to_bytes(CatalogNew)).data>>
    /\ total_pages = 2
    /\ pages = <<>>
    /\ objs = <<>>
    /\ capacity \in {3, MaxBqPages}
    /\ bq_count = 0
    /\ bq_last = [op |-> "init", st |-> "ok"]
    /\ BpIdle /\ SpIdle /\ BtIdle /\ ExIdle /\ PgIdle /\ CtIdle /\ OsIdle /\ CcIdle /\ MoreIdle

BqBatch ==
    \E queries \in BqBatches :
        LET returned(r) ==
                /\ SetStore(Settle(r.s))
                /\ bq_last' = [op |-> "batch", queries |-> queries, st |-> r.st,
                               why |-> r.why, results |-> r.rows, before |-> Store]
                /\ bq_count' = bq_count + 1
        IN  /\ bq_last.st # "hang"
            /\ bq_count < MaxBatches
            /\ returned(execute(Store, Query("batch", "", queries)))

BqNext ==
    BqBatch /\ UNCHANGED <<bpVars, spVars, btVars, exVars, pgVars, ctVars, osVars, ccVars, moreVars>>

SpecBatch == BqInit /\ [][BqNext]_vars

\* the store sub-query i of the last Batch starts on when every sub-query before it is
\* executed, alone and in order, from the store the Batch started on
RECURSIVE BqStart(_)
BqStart(i) ==
    IF i = 1 THEN bq_last.before
    ELSE Settle(execute(BqStart(i - 1), bq_last.queries[i - 1]).s)

\* what sub-query i returns, executed alone on that store
BqOutcome(i) == execute(BqStart(i), bq_last.queries[i])

\* the sub-queries that fail with every one before them succeeding: the first failing
\* one, if any
BqFirstFailing ==
    {i \in 1..Len(bq_last.queries) :
        /\ BqOutcome(i).st # "ok"
        /\ \A j \in 1..(i - 1) : BqOutcome(j).st = "ok"}

\* C16: Batch runs its sub-queries in list order and stops at the first one that fails:
\* it returns that sub-query's error and storage is as that sub-query left it, nothing
\* after it having run; when none fails it returns one result per sub-query, in order.
C16_BatchStopsAtFirstError ==
    bq_last.op = "batch"
        => IF BqFirstFailing # {}
           THEN \A i \in BqFirstFailing :
                    /\ bq_last.st = BqOutcome(i).st
                    /\ bq_last.why = BqOutcome(i).why
                    /\ StoreIs(Settle(BqOutcome(i).s))
           ELSE /\ bq_last.st = "ok"
                /\ bq_last.results
                       = [i \in 1..Len(bq_last.queries)
                             |-> pushed(bq_last.queries[i], BqOutcome(i))]
                /\ StoreIs(BqStart(Len(bq_last.queries) + 1))

\* a Batch whose second sub-query failed after the first changed storage, followed by a
\* sub-query that would have succeeded
C16_Witness ==
    /\ bq_last.op = "batch"
    /\ Len(bq_last.queries) = 3
    /\ BqFirstFailing = {2}
    /\ BqStart(2).file # bq_last.before.file \/ BqStart(2).objs # Settle(bq_last.before).objs
    /\ execute(Settle(BqOutcome(2).s), bq_last.queries[3]).st = "ok"

(***************************************************************************)
(* Order By, Offset and Limit (query/executor.rs, handle_select): the rows *)
(* the scan has collected, then one Select after another on them.          *)
(***************************************************************************)
\* a JSON integer: base * 2^53 + off, with off below 2^53
Num(base, off) == [base |-> base, off |-> off]

\* a < b as integers
NumLess(a, b) == a.base < b.base \/ (a.base = b.base /\ a.off < b.off)

\* Value::as_f64 of an integer, n as f64: exact below 2^53; from 2^53 to 2^54 the
\* doubles are the even integers and the cast rounds to the nearest, a tie to the one
\* with the even significand
as_f64(n) ==
    IF n.base = 0 \/ n.off % 2 = 0 THEN n
    ELSE IF (n.off - 1) % 4 = 0 THEN Num(n.base, n.off - 1)
    ELSE Num(n.base, n.off + 1)

\* fa.partial_cmp(&fb).unwrap_or(Equal) of two doubles that hold integers
partial_cmp(fa, fb) ==
    IF NumLess(fa, fb) THEN "Less" ELSE IF NumLess(fb, fa) THEN "Greater" ELSE "Equal"

\* Ordering::reverse
reverse(ord) ==
    IF ord = "Less" THEN "Greater" ELSE IF ord = "Greater" THEN "Less" ELSE "Equal"

\* a.get(&order_by.column)
get(a, column) == IF column \in DOMAIN a THEN Some(a[column]) ELSE None

\* str::to_uppercase of a direction
to_uppercase(direction) ==
    IF direction \in {"desc", "DESC"} THEN "DESC"
    ELSE IF direction \in {"asc", "ASC"} THEN "ASC" ELSE direction

\* the closure handle_select passes to sort_by; the values of the rows are integers, for
\* which as_str is None and as_f64 is Some
compare(a, b, order_by) ==
    LET cmp(val_a, val_b) ==
            IF val_a.some /\ val_b.some THEN partial_cmp(as_f64(val_a.val), as_f64(val_b.val))
            ELSE IF val_a.some THEN "Less"
            ELSE IF val_b.some THEN "Greater"
            ELSE "Equal"
        directed(ord) ==
            IF to_uppercase(order_by.direction) = "DESC" THEN reverse(ord) ELSE ord
    IN  directed(cmp(get(a, order_by.column), get(b, order_by.column)))

\* one pass of the insertion sort that the stable slice::sort_by runs on a short slice:
\* the tail moves left while it is less than its left neighbour
RECURSIVE insert_tail(_, _, _)
insert_tail(sorted, tail, order_by) ==
    IF sorted = <<>> \/ compare(tail, sorted[Len(sorted)], order_by) # "Less"
    THEN Append(sorted, tail)
    ELSE Append(insert_tail(SubSeq(sorted, 1, Len(sorted) - 1), tail, order_by),
                sorted[Len(sorted)])

\* results.sort_by(..) of the first k rows
RECURSIVE sort_by(_, _, _)
sort_by(results, k, order_by) ==
    IF k = 0 THEN <<>>
    ELSE insert_tail(sort_by(results, k - 1, order_by), results[k], order_by)

\* results.into_iter().skip(offset).take(limit).collect(), offset and limit after their
\* unwrap_or: an absent limit is u32::MAX, beyond the length of any results here
skip_take(results, offset, limit) ==
    LET from == (IF offset.some THEN offset.val ELSE 0) + 1
        upto == IF limit.some /\ from + limit.val - 1 < Len(results)
                THEN from + limit.val - 1 ELSE Len(results)
    IN  SubSeq(results, from, upto)

\* handle_select from "Apply Order By" on
final_results(results, order_by, offset, limit) ==
    skip_take(IF order_by.some THEN sort_by(results, Len(results), order_by.val)
              ELSE results,
              offset, limit)

\* the integers in the rows: 0.., 2^53..
OsNumbers == {Num(base, off) : base \in {0, 1}, off \in 0..MaxOff}

\* row i of the scan, projected: with the column v or without it
OsRows(i) == {[id |-> i]} \cup {[id |-> i, v |-> n] : n \in OsNumbers}

OsScans ==
    UNION {{q \in [1..n -> UNION {OsRows(i) : i \in 1..n}] : \A i \in 1..n : q[i] \in OsRows(i)}
              : n \in 0..MaxRows}

OsOrderBys == {None} \cup {Some([column |-> "v", direction |-> d]) : d \in {"ASC", "DESC", "desc"}}

OsSlices == {None} \cup {Some(k) : k \in 0..MaxSlice}

OsInit ==
    /\ os_results \in OsScans
    /\ os_last = [op |-> "init"]
    /\ PoolIdle /\ BpIdle /\ SpIdle /\ BtIdle /\ ExIdle /\ PgIdle /\ CtIdle /\ BqIdle /\ CcIdle /\ MoreIdle

OsSelect ==
    \E order_by \in OsOrderBys, offset \in OsSlices, limit \in OsSlices :
        /\ os_last' = [op |-> "select", order_by |-> order_by, offset |-> offset,
                       limit |-> limit,
                       rows |-> final_results(os_results, order_by, offset, limit)]
        /\ UNCHANGED os_results

OsNext ==
    OsSelect
        /\ UNCHANGED <<poolVars, bpVars, spVars, btVars, exVars, pgVars, ctVars, bqVars, ccVars,
                       moreVars>>

SpecOrder == OsInit /\ [][OsNext]_vars

\* the orders of the scanned rows
OsPermutations ==
    {[i \in 1..Len(os_results) |-> os_results[f[i]]] :
        f \in {g \in [1..Len(os_results) -> 1..Len(os_results)] :
                  \A i, j \in 1..Len(os_results) : g[i] = g[j] => i = j}}

\* q is sorted by column v in the direction asked for; ascending, the rows without the
\* column come after those with it
OsSorted(q, direction) ==
    \A i, j \in 1..Len(q) :
        i < j =>
            IF "v" \in DOMAIN q[i] /\ "v" \in DOMAIN q[j]
            THEN IF to_uppercase(direction) = "DESC" THEN ~NumLess(q[i].v, q[j].v)
                 ELSE ~NumLess(q[j].v, q[i].v)
            ELSE to_uppercase(direction) = "DESC" \/ "v" \in DOMAIN q[i]
                     \/ "v" \notin DOMAIN q[j]

\* rows offset + 1 .. offset + limit of q
OsSlice(q, offset, limit) ==
    [i \in 1..(IF Len(q) <= offset THEN 0
               ELSE IF Len(q) - offset <= limit THEN Len(q) - offset ELSE limit)
        |-> q[offset + i]]

CcThreads == 1..MaxCcThreads

CcQueries ==
    {Query("create_table", "t", TRUE), Query("create_table", "u", TRUE),
     Query("drop_table", "t", FALSE)}

\* pages.push(gid, page_ref.clone()) alone: the new entry goes in front, the least
\* recently used entry of a full cache comes back as evicted.  [s, h, evicted, victim]
lru_push_entry(s, gid, page) ==
    LET full == Len(s.pages) >= s.capacity
        named(h) ==
            [s |-> [s EXCEPT !.pages = <<[gid |-> gid, h |-> h]>>
                                  \o (IF full THEN SubSeq(s.pages, 1, Len(s.pages) - 1)
                                      ELSE s.pages),
                             !.objs = (h :> page) @@ @],
             h |-> h, evicted |-> full,
             victim |-> IF full THEN s.pages[Len(s.pages)] ELSE NoVictim]
    IN  named(FreshHandle(s))

\* a thread between queries
CcRest ==
    [pc |-> "idle", query |-> Query("none", "", FALSE), want |-> 0, ret |-> "",
     got |-> 0, page_id |-> 0, victim |-> NoVictim, hs |-> {}, w |-> {}, ch |-> 0,
     catalog |-> CatalogNew, root_page_id |-> 0, index_root_page_id |-> 0,
     st |-> "", why |-> ""]

\* the storage of a server that has run query on s and is at rest again
After(s, query) == Settle(execute(s, query).s)

\* the storages the concurrent queries start on: a fresh database, one with table t,
\* and one with three rows in t
CcStarts(cap) ==
    LET fresh == [file |-> <<HeaderBytes,
                             catalog_store(PageNew(1), catalog_to_bytes(CatalogNew)).data>>,
                  total_pages |-> 2, pages |-> <<>>, objs |-> <<>>, capacity |-> cap]
        row == Query("insert", "t", <<[id |-> 1, v |-> 1]>>)
        filled(s) == After(After(After(s, row), row), row)
        created(s) == {s, filled(s)}
    IN  {fresh} \cup created(After(fresh, Query("create_table", "t", TRUE)))

CcInit ==
    /\ \E cap \in {3, MaxCtPages} :
          \E start \in CcStarts(cap) : StoreIs(start) /\ cc_start = start
    /\ cc_thread = [t \in CcThreads |-> CcRest]
    /\ cc_pages_lock = 0
    /\ cc_pagers_lock = 0
    /\ BpIdle /\ SpIdle /\ BtIdle /\ ExIdle /\ PgIdle /\ CtIdle /\ BqIdle /\ OsIdle /\ MoreIdle

\* the handles thread u keeps alive: its Arcs, and evicted_page while it flushes it
CcHolds(u) ==
    cc_thread[u].hs
        \cup (IF cc_thread[u].pc \in {"fetch_evict", "new_evict"}
              THEN {cc_thread[u].victim.h} ELSE {})

\* some thread holds the write guard of page object h
CcWriteLocked(h) == \E u \in CcThreads : h \in cc_thread[u].w

CcStep(t, s, thread) ==
    /\ SetStore(s)
    /\ cc_thread' = [cc_thread EXCEPT ![t] = thread]

\* the handler returns: its guards and Arcs are dropped
CcReturn(t, s, st, why) ==
    /\ SetStore(drop_unreferenced(s, UNION {CcHolds(u) : u \in CcThreads \ {t}}))
    /\ cc_thread' = [cc_thread EXCEPT ![t] = [CcRest EXCEPT !.pc = "done",
                                                            !.query = cc_thread[t].query,
                                                            !.st = st, !.why = why]]

\* a query arrives at a worker thread: fetch_page of page 1 is called
CcCall(t) ==
    \E q \in CcQueries :
        /\ cc_thread[t].pc = "idle"
        /\ CcStep(t, Store, [cc_thread[t] EXCEPT !.pc = "fetch_lock", !.query = q,
                                                 !.want = 1, !.ret = "catalog_write"])
        /\ UNCHANGED <<cc_pages_lock, cc_pagers_lock, cc_start>>

\* fetch_page: self.pages.lock()
CcFetchLock(t) ==
    /\ cc_thread[t].pc = "fetch_lock"
    /\ mutex_free(cc_pages_lock)
    /\ cc_pages_lock' = t
    /\ CcStep(t, Store, [cc_thread[t] EXCEPT !.pc = "fetch_get"])
    /\ UNCHANGED <<cc_pagers_lock, cc_start>>

\* fetch_page: pages.get; a hit returns the clone and drops the guard of pages
CcFetchGet(t) ==
    /\ cc_thread[t].pc = "fetch_get"
    /\ IF CachedAt(Store, cc_thread[t].want) # {}
       THEN /\ CcStep(t, lru_touch(Store, cc_thread[t].want),
                      [cc_thread[t] EXCEPT !.pc = cc_thread[t].ret,
                                           !.got = HandleOf(Store, cc_thread[t].want),
                                           !.hs = @ \cup {HandleOf(Store, cc_thread[t].want)}])
            /\ cc_pages_lock' = 0
       ELSE /\ CcStep(t, Store, [cc_thread[t] EXCEPT !.pc = "fetch_pagers"])
            /\ UNCHANGED cc_pages_lock
    /\ UNCHANGED <<cc_pagers_lock, cc_start>>

\* fetch_page: self.pagers.lock()
CcFetchPagers(t) ==
    /\ cc_thread[t].pc = "fetch_pagers"
    /\ mutex_free(cc_pagers_lock)
    /\ cc_pagers_lock' = t
    /\ CcStep(t, Store, [cc_thread[t] EXCEPT !.pc = "fetch_read"])
    /\ UNCHANGED <<cc_pages_lock, cc_start>>

\* what follows pages.push in fetch_page and new_page
CcPushed(t, e, evict, return) ==
    CcStep(t, e.s, [cc_thread[t] EXCEPT !.pc = IF e.evicted THEN evict ELSE return,
                                        !.got = e.h, !.hs = @ \cup {e.h},
                                        !.victim = e.victim])

\* fetch_page: pager.read_page, Arc::new, pages.push
CcFetchRead(t) ==
    LET read(r) ==
            IF ~r.ok
            THEN /\ CcReturn(t, Store, "err", "")
                 /\ cc_pages_lock' = 0
                 /\ cc_pagers_lock' = 0
            ELSE /\ CcPushed(t, lru_push_entry(Store, cc_thread[t].want, r.page),
                             "fetch_evict", "fetch_return")
                 /\ UNCHANGED <<cc_pages_lock, cc_pagers_lock>>
    IN  /\ cc_thread[t].pc = "fetch_read"
        /\ read(read_page(Store, cc_thread[t].want))
        /\ UNCHANGED cc_start

\* evicted_page.read(), "Flush if dirty", and the drop of evicted_page
CcEvicted(t, return) ==
    /\ ~CcWriteLocked(cc_thread[t].victim.h)
    /\ SetStore(drop_unreferenced(write_back(Store, cc_thread[t].victim),
                                  UNION {cc_thread[u].hs : u \in CcThreads}))
    /\ cc_thread' = [cc_thread EXCEPT ![t].pc = return, ![t].victim = NoVictim]

\* fetch_page: the eviction
CcFetchEvict(t) ==
    /\ cc_thread[t].pc = "fetch_evict"
    /\ CcEvicted(t, "fetch_return")
    /\ UNCHANGED <<cc_pages_lock, cc_pagers_lock, cc_start>>

\* fetch_page: Ok(page_ref); the guards of pagers and pages are dropped
CcFetchReturn(t) ==
    /\ cc_thread[t].pc = "fetch_return"
    /\ cc_pages_lock' = 0
    /\ cc_pagers_lock' = 0
    /\ CcStep(t, Store, [cc_thread[t] EXCEPT !.pc = cc_thread[t].ret])
    /\ UNCHANGED cc_start

\* catalog_page.write() and the handler up to its next call into the pool:
\* handle_create_table returns "already exists" or goes on to new_page,
\* handle_drop_table runs to its end
CcCatalogWrite(t) ==
    LET me == cc_thread[t]
        parsed(c) ==
            IF ~c.ok THEN CcReturn(t, Store, "err", "")
            ELSE IF me.query.op = "create_table"
            THEN IF table_exists(c.val, me.query.table)
                 THEN CcReturn(t, Store, "err", "exists")
                 ELSE CcStep(t, Store, [me EXCEPT !.pc = "new_pagers", !.ret = "init_root",
                                                  !.ch = me.got, !.w = {me.got},
                                                  !.catalog = c.val])
            ELSE IF ~table_exists(c.val, me.query.table)
            THEN CcReturn(t, Store, "err", "not_found")
            ELSE CcReturn(t,
                          SetObj(Store, me.got,
                                 catalog_store(objs[me.got],
                                               catalog_to_bytes(
                                                   remove_table(c.val, me.query.table)))),
                          "ok", "")
    IN  /\ me.pc = "catalog_write"
        /\ ~CcWriteLocked(me.got)
        /\ parsed(catalog_from_bytes(objs[me.got].data))
        /\ UNCHANGED <<cc_pages_lock, cc_pagers_lock, cc_start>>

\* new_page: self.pagers.lock(), pager.allocate_page, Page::new
CcNewPagers(t) ==
    /\ cc_thread[t].pc = "new_pagers"
    /\ mutex_free(cc_pagers_lock)
    /\ cc_pagers_lock' = t
    /\ CcStep(t, allocate_page(Store),
              [cc_thread[t] EXCEPT !.pc = "new_pages", !.page_id = total_pages])
    /\ UNCHANGED <<cc_pages_lock, cc_start>>

\* new_page: self.pages.lock(), Arc::new, pages.push
CcNewPages(t) ==
    /\ cc_thread[t].pc = "new_pages"
    /\ mutex_free(cc_pages_lock)
    /\ cc_pages_lock' = t
    /\ CcPushed(t, lru_push_entry(Store, cc_thread[t].page_id,
                                  PageNew(cc_thread[t].page_id)),
                "new_evict", "new_return")
    /\ UNCHANGED <<cc_pagers_lock, cc_start>>

\* new_page: the eviction
CcNewEvict(t) ==
    /\ cc_thread[t].pc = "new_evict"
    /\ CcEvicted(t, "new_return")
    /\ UNCHANGED <<cc_pages_lock, cc_pagers_lock, cc_start>>

\* new_page: Ok(page_ref); the guards of pages and pagers are dropped
CcNewReturn(t) ==
    /\ cc_thread[t].pc = "new_return"
    /\ cc_pages_lock' = 0
    /\ cc_pagers_lock' = 0
    /\ CcStep(t, Store, [cc_thread[t] EXCEPT !.pc = cc_thread[t].ret])
    /\ UNCHANGED cc_start

\* handle_create_table: root_page.read().id, slotted.init() under root_page.write(),
\* then new_page for the index root is called
CcInitRoot(t) ==
    /\ cc_thread[t].pc = "init_root"
    /\ ~CcWriteLocked(cc_thread[t].got)
    /\ CcStep(t, SetObj(Store, cc_thread[t].got, slotted_init(objs[cc_thread[t].got])),
              [cc_thread[t] EXCEPT !.pc = "new_pagers", !.ret = "init_index",
                                   !.root_page_id = objs[cc_thread[t].got].id])
    /\ UNCHANGED <<cc_pages_lock, cc_pagers_lock, cc_start>>

\* handle_create_table: index_root_page.read().id, BTreeIndex::new; index.init calls
\* fetch_page of the index root
CcInitIndex(t) ==
    /\ cc_thread[t].pc = "init_index"
    /\ ~CcWriteLocked(cc_thread[t].got)
    /\ CcStep(t, Store,
              [cc_thread[t] EXCEPT !.pc = "fetch_lock", !.ret = "node_init",
                                   !.want = objs[cc_thread[t].got].id,
                                   !.index_root_page_id = objs[cc_thread[t].got].id])
    /\ UNCHANGED <<cc_pages_lock, cc_pagers_lock, cc_start>>

\* BTreeIndex::init: node.init(true) under page.write(); then handle_create_table's
\* "Update Catalog" to its end
CcNodeInit(t) ==
    LET me == cc_thread[t]
        store(s, bytes) ==
            IF Len(bytes) > PAGE_SIZE THEN CcReturn(t, s, "err", "")
            ELSE CcReturn(t, SetObj(s, me.ch, catalog_store(s.objs[me.ch], bytes)),
                          "ok", "")
    IN  /\ me.pc = "node_init"
        /\ ~CcWriteLocked(me.got)
        /\ store(SetObj(Store, me.got, node_init(objs[me.got], TRUE)),
                 catalog_to_bytes(
                     add_table(me.catalog,
                               [name |-> me.query.table, root_page_id |-> me.root_page_id,
                                index_root_page_id |-> me.index_root_page_id,
                                primary_key |-> me.query.arg])))
        /\ UNCHANGED <<cc_pages_lock, cc_pagers_lock, cc_start>>

ccOthers == <<bpVars, spVars, btVars, exVars, pgVars, ctVars, bqVars, osVars, moreVars>>

CcNext ==
    \/ \E t \in CcThreads : CcCall(t) /\ UNCHANGED ccOthers
    \/ \E t \in CcThreads : CcFetchLock(t) /\ UNCHANGED ccOthers
    \/ \E t \in CcThreads : CcFetchGet(t) /\ UNCHANGED ccOthers
    \/ \E t \in CcThreads : CcFetchPagers(t) /\ UNCHANGED ccOthers
    \/ \E t \in CcThreads : CcFetchRead(t) /\ UNCHANGED ccOthers
    \/ \E t \in CcThreads : CcFetchEvict(t) /\ UNCHANGED ccOthers
    \/ \E t \in CcThreads : CcFetchReturn(t) /\ UNCHANGED ccOthers
    \/ \E t \in CcThreads : CcCatalogWrite(t) /\ UNCHANGED ccOthers
    \/ \E t \in CcThreads : CcNewPagers(t) /\ UNCHANGED ccOthers
    \/ \E t \in CcThreads : CcNewPages(t) /\ UNCHANGED ccOthers
    \/ \E t \in CcThreads : CcNewEvict(t) /\ UNCHANGED ccOthers
    \/ \E t \in CcThreads : CcNewReturn(t) /\ UNCHANGED ccOthers
    \/ \E t \in CcThreads : CcInitRoot(t) /\ UNCHANGED ccOthers
    \/ \E t \in CcThreads : CcInitIndex(t) /\ UNCHANGED ccOthers
    \/ \E t \in CcThreads : CcNodeInit(t) /\ UNCHANGED ccOthers

SpecConc == CcInit /\ [][CcNext]_vars

\* C11: fetch_page does not hold the lock of the cache (pages) while the Pager reads or
\* writes the file.
C11_NoCacheLockDuringIo ==
    \A t \in CcThreads :
        cc_thread[t].pc \in {"fetch_read", "fetch_evict"} => cc_pages_lock # t

\* every thread has its answer
CcDone == \A t \in CcThreads : cc_thread[t].pc = "done"

\* the orders the queries can be put in
CcOrders ==
    {order \in [1..MaxCcThreads -> CcThreads] :
        \A i, j \in 1..MaxCcThreads : order[i] = order[j] => i = j}

\* the storage after the queries of the first i threads of order have run one after
\* the other on the storage the server started with
RECURSIVE CcSerialStore(_, _)
CcSerialStore(order, i) ==
    IF i = 0 THEN cc_start
    ELSE After(CcSerialStore(order, i - 1), cc_thread[order[i]].query)

\* what the query of the i-th thread of order returns in that run
CcSerialAnswer(order, i) == execute(CcSerialStore(order, i - 1), cc_thread[order[i]].query)

\* thread t waits, inside the pool, for the guard of a page that it has write-locked
\* itself
CcWaitsForItself(t) ==
    /\ cc_thread[t].pc \in {"fetch_evict", "new_evict"}
    /\ cc_thread[t].victim.h \in cc_thread[t].w

\* C13: concurrent CreateTable and DropTable queries take effect one after the other:
\* each of them returns, and the answers and the catalog a later fetch of page 1 reads
\* are those of the queries run in some order (so of two CreateTable of one name one
\* fails with "already exists", and two of different names both end up in the catalog).
C13_CatalogSerialized ==
    /\ \A t \in CcThreads : ~CcWaitsForItself(t)
    /\ CcDone
          => \E order \in CcOrders :
                /\ \A i \in 1..MaxCcThreads :
                      /\ cc_thread[order[i]].st = CcSerialAnswer(order, i).st
                      /\ cc_thread[order[i]].why = CcSerialAnswer(order, i).why
                /\ CatalogOf(Store) = CatalogOf(CcSerialStore(order, MaxCcThreads))

(***************************************************************************)
(* Access control: AuthManager, and the query handler in front of the      *)
(* executor                                                                *)
(***************************************************************************)
AuUsers == {"a", "b"}
AuDatabases == {"d", "e"}
Roles == {"Owner", "DbAdmin", "ReadWrite", "ReadOnly"}

\* AclEntry
AclEntry(username, database, role) ==
    [username |-> username, database |-> database, role |-> role]

\* the access lists an access_control.toml can hold
AuAcls ==
    UNION {[1..n -> {AclEntry(u, d, r) : u \in AuUsers, d \in AuDatabases, r \in Roles}] :
           n \in 0..MaxAcl}

\* AuthManager::role_sufficient
role_sufficient(user_role, required) ==
    CASE user_role = "Owner" -> TRUE
      [] user_role = "DbAdmin" -> required \in {"DbAdmin", "ReadWrite", "ReadOnly"}
      [] user_role = "ReadWrite" -> required \in {"ReadWrite", "ReadOnly"}
      [] user_role = "ReadOnly" -> required \in {"ReadOnly"}

\* ac.access.iter().find(..): the index of the first entry of that user and
\* database, 0 for None
find_entry(access, username, database) ==
    LET hits == {i \in DOMAIN access :
                    access[i].username = username /\ access[i].database = database}
    IN  IF hits = {} THEN 0 ELSE CHOOSE i \in hits : \A j \in hits : i <= j

\* AuthManager::check_access
check_access(sessions, access, token, database, required_role) ==
    IF token \notin DOMAIN sessions THEN "Invalid session token"
    ELSE LET entry == find_entry(access, sessions[token], database)
         IN  IF entry # 0 /\ role_sufficient(access[entry].role, required_role)
             THEN "Ok"
             ELSE "Access denied"

\* AuthManager::add_user
add_user(users, username) ==
    IF username \in users
    THEN [users |-> users, ret |-> "User already exists"]
    ELSE [users |-> users \cup {username}, ret |-> "Ok"]

\* AuthManager::login: the token is a fresh uuid, here the next natural number
login(users, sessions, username, verified) ==
    IF username \notin users \/ ~verified
    THEN [sessions |-> sessions, ret |-> "Invalid username or password", token |-> 0]
    ELSE [sessions |-> Append(sessions, username), ret |-> "Ok", token |-> Len(sessions) + 1]

\* the queries of a request: Select and Insert on a database, and a Batch of them
AuQuery(op, database) == [op |-> op, database |-> database]
AuSimple == {AuQuery(op, d) : op \in {"select", "insert"}, d \in AuDatabases}
AuBatch(queries) == [op |-> "batch", queries |-> queries]
AuQueries == AuSimple \cup {AuBatch(qs) : qs \in UNION {[1..n -> AuSimple] : n \in 0..MaxAuBatch}}

\* Query::get_database_name
get_database_name(query) ==
    IF query.op = "batch"
    THEN IF query.queries # <<>> THEN query.queries[1].database ELSE "unknown"
    ELSE query.database

\* query_handler: let required_role = match &*query
required_role(query) ==
    CASE query.op = "select" -> "ReadOnly"
      [] query.op = "batch" ->
            IF \A i \in DOMAIN query.queries : query.queries[i].op = "select"
            THEN "ReadOnly"
            ELSE "ReadWrite"
      [] OTHER -> "ReadWrite"

\* Executor::execute on a request's query: the queries the handlers ran, when
\* the sub-query at position failed is the first of a Batch to return Err (0: none)
executed(query, failed) ==
    IF query.op = "batch"
    THEN IF failed = 0 THEN query.queries ELSE SubSeq(query.queries, 1, failed)
    ELSE <<query>>

\* the Authorization header of a request
AuHeaders ==
    {[kind |-> k, token |-> 0] : k \in {"missing", "not_str", "not_bearer"}}
        \cup {[kind |-> "bearer", token |-> t] : t \in 0..MaxSessions}

\* query_handler, with config.auth.enabled as the server was started
query_handler(sessions, access, enabled, header, query, failed) ==
    IF enabled /\ header.kind = "missing" THEN [status |-> "Unauthorized", ran |-> <<>>]
    ELSE IF enabled /\ header.kind = "not_str" THEN [status |-> "Unauthorized", ran |-> <<>>]
    ELSE IF enabled /\ header.kind = "not_bearer" THEN [status |-> "Unauthorized", ran |-> <<>>]
    ELSE IF enabled /\ check_access(sessions, access, header.token,
                                    get_database_name(query), required_role(query)) # "Ok"
    THEN [status |-> "Forbidden", ran |-> <<>>]
    ELSE [status |-> "Executed", ran |-> executed(query, failed)]

\* the server starts: AuthManager::new, then load of access_control.toml
AuInit ==
    /\ au_users \in {{"a"}, AuUsers}
    /\ au_access \in AuAcls
    /\ au_sessions = <<>>
    /\ au_last = [op |-> "none"]
    /\ PoolIdle /\ BpIdle /\ SpIdle /\ BtIdle /\ ExIdle
    /\ PgIdle /\ CtIdle /\ BqIdle /\ OsIdle /\ CcIdle /\ LkIdle /\ TbIdle /\ LateIdle

AuAddUser ==
    \E username \in AuUsers :
        /\ au_users' = add_user(au_users, username).users
        /\ au_last' = [op |-> "add_user", username |-> username,
                       ret |-> add_user(au_users, username).ret]
        /\ UNCHANGED <<au_access, au_sessions>>

AuLogin ==
    \E username \in AuUsers, verified \in BOOLEAN :
        /\ Len(au_sessions) < MaxSessions
        /\ au_sessions' = login(au_users, au_sessions, username, verified).sessions
        /\ au_last' = [op |-> "login", username |-> username,
                       ret |-> login(au_users, au_sessions, username, verified).ret,
                       token |-> login(au_users, au_sessions, username, verified).token]
        /\ UNCHANGED <<au_users, au_access>>

\* check_access and query_handler leave the users, the list and the sessions as
\* they are: one call is looked at after each change of them
AuChanged == au_last.op \in {"none", "add_user", "login"}

AuCheckAccess ==
    \E token \in 0..MaxSessions, database \in AuDatabases, required \in Roles :
        /\ AuChanged
        /\ au_last' = [op |-> "check_access", token |-> token, database |-> database,
                       required_role |-> required,
                       ret |-> check_access(au_sessions, au_access, token, database, required)]
        /\ UNCHANGED <<au_users, au_access, au_sessions>>

AuRequest ==
    \E enabled \in BOOLEAN, header \in AuHeaders, query \in AuQueries, failed \in 0..MaxAuBatch :
        /\ AuChanged
        /\ ~enabled => header.kind = "missing"
        /\ IF query.op = "batch" THEN failed < Len(query.queries) ELSE failed = 0
        /\ au_last' = [op |-> "query", enabled |-> enabled, header |-> header, query |-> query,
                       status |-> query_handler(au_sessions, au_access, enabled, header,
                                                query, failed).status,
                       ran |-> query_handler(au_sessions, au_access, enabled, header,
                                             query, failed).ran]
        /\ UNCHANGED <<au_users, au_access, au_sessions>>

auOthers ==
    <<poolVars, bpVars, spVars, btVars, exVars, pgVars, ctVars, bqVars, osVars, ccVars, lkVars,
      tbVars, lateVars>>

AuNext ==
    \/ AuAddUser /\ UNCHANGED auOthers
    \/ AuLogin /\ UNCHANGED auOthers
    \/ AuCheckAccess /\ UNCHANGED auOthers
    \/ AuRequest /\ UNCHANGED auOthers

SpecAuth == AuInit /\ [][AuNext]_vars

\* the total order of the roles: Owner > DbAdmin > ReadWrite > ReadOnly
RoleRank(role) ==
    CASE role = "Owner" -> 4
      [] role = "DbAdmin" -> 3
      [] role = "ReadWrite" -> 2
      [] role = "ReadOnly" -> 1

\* the user has an entry for the database with at least the role
HasRole(access, username, database, role) ==
    \E i \in DOMAIN access :
        /\ access[i].username = username
        /\ access[i].database = database
        /\ RoleRank(access[i].role) >= RoleRank(role)

\* C22: check_access returns Ok if and only if the token is the token of a
\* logged-in user who has an ACL entry for the database whose role is at
\* least the required role in Owner > DbAdmin > ReadWrite > ReadOnly.
C22_CheckAccessIffEntry ==
    au_last.op = "check_access" =>
        (au_last.ret = "Ok"
            <=> /\ au_last.token \in DOMAIN au_sessions
                /\ HasRole(au_access, au_sessions[au_last.token], au_last.database,
                           au_last.required_role))

\* what holds of check_access: the same, when the list has at most one entry
\* for each user and database
AuOneEntryEach ==
    \A i, j \in DOMAIN au_access :
        (au_access[i].username = au_access[j].username
            /\ au_access[i].database = au_access[j].database) => i = j

C22_HoldsWithOneEntryEach ==
    AuOneEntryEach => C22_CheckAccessIffEntry

\* the databases a query operates on: those of the queries its handlers ran
OperatesOn(ran) == {ran[i].database : i \in DOMAIN ran}

\* the role the policy asks for a request's query
PolicyRole(query) ==
    IF query.op = "select"
            \/ (query.op = "batch" /\ \A i \in DOMAIN query.queries : query.queries[i].op = "select")
    THEN "ReadOnly"
    ELSE "ReadWrite"

\* C21: with authentication enabled, a query is executed only if the session
\* is valid and the caller's role on each database the query operates on is
\* at least ReadOnly for a Select or a Batch of Selects only, and at least
\* ReadWrite for any other query.
C21_ExecutedOnlyWithRole ==
    (au_last.op = "query" /\ au_last.enabled /\ au_last.status = "Executed") =>
        /\ au_last.header.kind = "bearer"
        /\ au_last.header.token \in DOMAIN au_sessions
        /\ \A database \in OperatesOn(au_last.ran) :
               HasRole(au_access, au_sessions[au_last.header.token], database,
                       PolicyRole(au_last.query))

\* what holds of the handler: the session is valid and the caller's first
\* entry for the database of the query, for a Batch that of its first
\* sub-query, has the role
C21_HoldsOfFirstDatabase ==
    (au_last.op = "query" /\ au_last.enabled /\ au_last.status = "Executed") =>
        /\ au_last.header.kind = "bearer"
        /\ au_last.header.token \in DOMAIN au_sessions
        /\ LET database == IF au_last.query.op = "batch" /\ au_last.query.queries = <<>>
                           THEN "unknown"
                           ELSE IF au_last.query.op = "batch"
                                THEN au_last.query.queries[1].database
                                ELSE au_last.query.database
               username == au_sessions[au_last.header.token]
           IN  \E i \in DOMAIN au_access :
                   /\ au_access[i].username = username
                   /\ au_access[i].database = database
                   /\ RoleRank(au_access[i].role) >= RoleRank(PolicyRole(au_last.query))
                   /\ \A j \in 1..(i - 1) :
                          ~(au_access[j].username = username /\ au_access[j].database = database)

(***************************************************************************)
(* Lock order of the BufferPool: fetch_page, new_page and flush_all called *)
(* by threads that hold no page guard and drop the handle they get         *)
(***************************************************************************)
LkThreads == 1..MaxLkThreads

LkRest == [pc |-> "idle", page_id |-> 0]

\* the server started on a file of two pages, with an empty cache
LkInit ==
    /\ \E c \in 1..2 :
          StoreIs(allocate_page(allocate_page(
              [file |-> <<>>, total_pages |-> 0, pages |-> <<>>, objs |-> <<>>,
               capacity |-> c])))
    /\ lk_thread = [t \in LkThreads |-> LkRest]
    /\ lk_pages_lock = 0
    /\ lk_pagers_lock = 0
    /\ lk_calls = 0
    /\ BpIdle /\ SpIdle /\ BtIdle /\ ExIdle
    /\ PgIdle /\ CtIdle /\ BqIdle /\ OsIdle /\ CcIdle /\ AuIdle /\ TbIdle /\ LateIdle

\* a thread calls fetch_page, new_page or flush_all
LkCall(t) ==
    /\ lk_thread[t].pc = "idle"
    /\ lk_calls < MaxLkCalls
    /\ lk_calls' = lk_calls + 1
    /\ \/ \E page_id \in 0..(MaxLkPages - 1) :
              lk_thread' = [lk_thread EXCEPT ![t] = [pc |-> "fetch_pages", page_id |-> page_id]]
       \/ /\ total_pages < MaxLkPages
          /\ lk_thread' = [lk_thread EXCEPT ![t] = [pc |-> "new_pagers", page_id |-> 0]]
       \/ lk_thread' = [lk_thread EXCEPT ![t] = [pc |-> "flush_pages", page_id |-> 0]]
    /\ UNCHANGED <<poolVars, lk_pages_lock, lk_pagers_lock>>

\* fetch_page: let mut pages = self.pages.lock(); a cached page is returned at once
LkFetchPages(t) ==
    /\ lk_thread[t].pc = "fetch_pages"
    /\ mutex_free(lk_pages_lock)
    /\ IF CachedAt(Store, lk_thread[t].page_id) # {}
       THEN /\ SetStore(Settle(fetch_page(Store, lk_thread[t].page_id, {}).s))
            /\ lk_thread' = [lk_thread EXCEPT ![t] = LkRest]
            /\ UNCHANGED lk_pages_lock
       ELSE /\ lk_pages_lock' = t
            /\ lk_thread' = [lk_thread EXCEPT ![t].pc = "fetch_pagers"]
            /\ UNCHANGED poolVars
    /\ UNCHANGED <<lk_pagers_lock, lk_calls>>

\* fetch_page: let pagers = self.pagers.lock(), then the read, the push and the
\* return, which drops both guards
LkFetchPagers(t) ==
    /\ lk_thread[t].pc = "fetch_pagers"
    /\ mutex_free(lk_pagers_lock)
    /\ SetStore(Settle(fetch_page(Store, lk_thread[t].page_id, {}).s))
    /\ lk_thread' = [lk_thread EXCEPT ![t] = LkRest]
    /\ lk_pages_lock' = 0
    /\ UNCHANGED <<lk_pagers_lock, lk_calls>>

\* new_page: let pagers = self.pagers.lock(), then pager.allocate_page()
LkNewPagers(t) ==
    /\ lk_thread[t].pc = "new_pagers"
    /\ mutex_free(lk_pagers_lock)
    /\ lk_pagers_lock' = t
    /\ SetStore(allocate_page(Store))
    /\ lk_thread' = [lk_thread EXCEPT ![t] = [pc |-> "new_pages", page_id |-> total_pages]]
    /\ UNCHANGED <<lk_pages_lock, lk_calls>>

\* new_page: let mut pages = self.pages.lock(), then the push and the return
LkNewPages(t) ==
    /\ lk_thread[t].pc = "new_pages"
    /\ mutex_free(lk_pages_lock)
    /\ SetStore(Settle(lru_push(Store, lk_thread[t].page_id,
                                PageNew(lk_thread[t].page_id), {}).s))
    /\ lk_thread' = [lk_thread EXCEPT ![t] = LkRest]
    /\ lk_pagers_lock' = 0
    /\ UNCHANGED <<lk_pages_lock, lk_calls>>

\* flush_all: let pages = self.pages.lock()
LkFlushPages(t) ==
    /\ lk_thread[t].pc = "flush_pages"
    /\ mutex_free(lk_pages_lock)
    /\ lk_pages_lock' = t
    /\ lk_thread' = [lk_thread EXCEPT ![t].pc = "flush_pagers"]
    /\ UNCHANGED <<poolVars, lk_pagers_lock, lk_calls>>

\* flush_all: let pagers = self.pagers.lock(), then the loop and the return
LkFlushPagers(t) ==
    /\ lk_thread[t].pc = "flush_pagers"
    /\ mutex_free(lk_pagers_lock)
    /\ SetStore(flush_all(Store, {}).s)
    /\ lk_thread' = [lk_thread EXCEPT ![t] = LkRest]
    /\ lk_pages_lock' = 0
    /\ UNCHANGED <<lk_pagers_lock, lk_calls>>

lkOthers ==
    <<bpVars, spVars, btVars, exVars, pgVars, ctVars, bqVars, osVars, ccVars, auVars, tbVars,
      lateVars>>

LkNext ==
    \/ \E t \in LkThreads : LkCall(t) /\ UNCHANGED lkOthers
    \/ \E t \in LkThreads : LkFetchPages(t) /\ UNCHANGED lkOthers
    \/ \E t \in LkThreads : LkFetchPagers(t) /\ UNCHANGED lkOthers
    \/ \E t \in LkThreads : LkNewPagers(t) /\ UNCHANGED lkOthers
    \/ \E t \in LkThreads : LkNewPages(t) /\ UNCHANGED lkOthers
    \/ \E t \in LkThreads : LkFlushPages(t) /\ UNCHANGED lkOthers
    \/ \E t \in LkThreads : LkFlushPagers(t) /\ UNCHANGED lkOthers

SpecLocks == LkInit /\ [][LkNext]_vars

\* the thread is in a call and the Mutex it asks for next is held by another thread
LkWaits(t) ==
    \/ lk_thread[t].pc \in {"fetch_pages", "new_pages", "flush_pages"}
          /\ lk_pages_lock \notin {0, t}
    \/ lk_thread[t].pc \in {"fetch_pagers", "new_pagers", "flush_pagers"}
          /\ lk_pagers_lock \notin {0, t}

LkInCall == {t \in LkThreads : lk_thread[t].pc # "idle"}

\* C23: concurrent fetch_page (miss path), new_page and flush_all calls by
\* threads that hold no page guard all complete: while calls are running, one
\* of them can take its next step, so no set of threads waits on each other
\* for the cache lock and the pager-registry lock.
C23_NoLockOrderDeadlock ==
    LkInCall # {} => \E t \in LkInCall : ~LkWaits(t)

\* what holds of the three: fetch_page and flush_all take the cache lock first,
\* and calls of these two alone never wait on each other
C23_HoldsWithoutNewPage ==
    (\A t \in LkThreads : lk_thread[t].pc \notin {"new_pagers", "new_pages"}) =>
        C23_NoLockOrderDeadlock

\* cached pages whose bytes differ from the bytes the file has for them
StalePages(s) ==
    {s.pages[i].gid : i \in {j \in 1..Len(s.pages) :
                                s.objs[s.pages[j].h].data # s.file[s.pages[j].gid + 1]}}

\* C24: every operation that changes the bytes of a cached page leaves its
\* dirty flag set, so whenever a query has returned, a cached page whose
\* bytes differ from its bytes on disk has dirty = true.
C24_ChangedPagesAreDirty ==
    ExRunning => \A p \in StalePages(Store) : PeekDirty(Store, p)

\* the heap pages of table t
ExHeapPages(s) ==
    IF "t" \in DOMAIN CatalogOf(s) THEN HeapChain(s, CatalogOf(s)["t"].root_page_id, {}) ELSE {}

\* the same of the heap pages alone, after any query but a Delete: insert_tuple,
\* update_tuple, compact and set_next_page_id go through the setters of the
\* page header, which set the flag
C24_HoldsOfHeapBeforeDelete ==
    (ExRunning /\ ex_clean) =>
        \A p \in StalePages(Store) \cap ExHeapPages(Store) : PeekDirty(Store, p)

\* the live Page objects of page p: those the cache or a caller's handle refers to
LiveObjects(p) == {h \in DOMAIN objs : objs[h].id = p}

\* C25: all live handles for one page id refer to the same shared Page
\* object, so a write through a handle is seen by every later fetch_page of
\* that id and no two callers mutate two different in-memory copies of a page.
C25_OneObjectPerPage ==
    \A p \in BpPageIds : Cardinality(LiveObjects(p)) <= 1

\* what holds of the pool: the cache itself has one entry and one object for a page
C25_HoldsOfCache ==
    \A i, j \in 1..Len(pages) : pages[i].gid = pages[j].gid => i = j

\* what search(key) returns on store s: [st, val]
Found(s, key) ==
    LET answer(r) == [st |-> r.st, val |-> r.val]
    IN  answer(btree_search(s, bt_root, key, NoGuards))

\* C26: when BTreeIndex.insert returns an error the index is unchanged: every
\* key that search() found before the call is found with the same value after it.
C26_FailedInsertKeepsKeys ==
    [][(bt_last'.op = "insert" /\ bt_last'.st = "err") =>
          \A key \in BtKeys :
              (Found(Store, key).st = "ok" /\ Found(Store, key).val.some)
                  => Found(Store', key) = Found(Store, key)]_vars

(***************************************************************************)
(* Specification of the Executor on one table: the server of the executor  *)
(* specification after CreateTable t has returned, with Inserts of rows    *)
(* with and without a long string column, Updates of the primary-key       *)
(* column id and of the column v, Deletes, Selects, and restarts after     *)
(* flush_all.  A query that never returns ends the run.                    *)
(***************************************************************************)
\* a string column too long for a page: with it the serialized row has
\* 20 bytes, an empty page has room for 19
LongString == <<97, 98, 99, 100, 101, 102, 103, 104, 105, 106, 107, 108, 109, 110>>

TbRows ==
    {[id |-> i, v |-> 1] : i \in 1..MaxTbId} \cup {[id |-> 1, v |-> 1, s |-> LongString]}

TbWheres == {None} \cup {Where("id", k) : k \in 1..MaxTbId}

TbSets == {[id |-> 2], [v |-> 2]}

TbInit ==
    /\ \E c \in {3, MaxTbPages}, primary_key \in BOOLEAN :
          StoreIs(Settle(handle_create_table(
              [file |-> <<HeaderBytes,
                          catalog_store(PageNew(1), catalog_to_bytes(CatalogNew)).data>>,
               total_pages |-> 2, pages |-> <<>>, objs |-> <<>>, capacity |-> c],
              "t", primary_key).s))
    /\ tb_deleted = {}
    /\ tb_writes = 0
    /\ tb_restarts = 0
    /\ tb_last = [op |-> "create_table", st |-> "ok"]
    /\ BpIdle /\ SpIdle /\ BtIdle /\ ExIdle
    /\ PgIdle /\ CtIdle /\ BqIdle /\ OsIdle /\ CcIdle /\ AuIdle /\ LkIdle /\ LateIdle

TbRunning == tb_last.st # "hang"

\* the rows a scan of the table returns for the clause, as a set
Matched(s, where) ==
    LET rows == filtered_scan(s, "t", <<"*">>, where).rows
    IN  {rows[i] : i \in DOMAIN rows}

TbInsert ==
    \E row \in TbRows :
        LET returned(r) ==
                /\ SetStore(Settle(r.s))
                /\ tb_deleted' = {}
                /\ tb_writes' = tb_writes + 1
                /\ tb_last' = [op |-> "insert", st |-> r.st, row |-> row,
                               pages |-> r.s.total_pages - total_pages]
                /\ UNCHANGED tb_restarts
        IN  /\ TbRunning
            /\ tb_writes < MaxTbWrites
            /\ total_pages + 3 <= MaxTbPages
            /\ returned(handle_insert(Store, "t", <<row>>))

TbUpdate ==
    \E set \in TbSets, where \in RewriteInputs :
        LET returned(r) ==
                /\ SetStore(Settle(r.s))
                /\ tb_deleted' = {}
                /\ tb_writes' = tb_writes + 1
                /\ tb_last' = [op |-> "update", st |-> r.st, count |-> r.count]
                /\ UNCHANGED tb_restarts
        IN  /\ TbRunning
            /\ tb_writes < MaxTbWrites
            /\ returned(handle_update(Store, "t", set, where))

TbDelete ==
    \E where \in RewriteInputs :
        LET returned(r) ==
                /\ SetStore(Settle(r.s))
                /\ tb_deleted' = IF r.st = "ok" THEN tb_deleted \cup Matched(Store, where)
                                 ELSE tb_deleted
                /\ tb_writes' = tb_writes + 1
                /\ tb_last' = [op |-> "delete", st |-> r.st, count |-> r.count]
                /\ UNCHANGED tb_restarts
        IN  /\ TbRunning
            /\ tb_writes < MaxTbWrites
            /\ returned(handle_delete(Store, "t", where))

TbSelect ==
    \E where \in TbWheres :
        LET returned(r) ==
                /\ SetStore(Settle(r.s))
                /\ tb_last' = [op |-> "select", st |-> r.st, where |-> where, rows |-> r.rows,
                               index |-> CatalogOf(Store)["t"].primary_key /\ where.some]
                /\ UNCHANGED <<tb_deleted, tb_writes, tb_restarts>>
        IN  /\ TbRunning
            /\ returned(handle_select(Store, "t", <<"*">>, where))

\* flush_all, then the server is stopped and started again on the file
TbRestart ==
    /\ TbRunning
    /\ tb_restarts < MaxTbRestarts
    /\ SetStore(reopen(flush_all(Store, {}).s))
    /\ tb_restarts' = tb_restarts + 1
    /\ tb_last' = [op |-> "restart", st |-> "ok"]
    /\ UNCHANGED <<tb_deleted, tb_writes>>

tbOthers ==
    <<bpVars, spVars, btVars, exVars, pgVars, ctVars, bqVars, osVars, ccVars, auVars, lkVars,
      lateVars>>

TbNext ==
    \/ TbInsert /\ UNCHANGED tbOthers
    \/ TbUpdate /\ UNCHANGED tbOthers
    \/ TbDelete /\ UNCHANGED tbOthers
    \/ TbSelect /\ UNCHANGED tbOthers
    \/ TbRestart /\ UNCHANGED tbOthers

SpecTable == TbInit /\ [][TbNext]_vars

\* C27: once a Delete has returned 'Deleted n rows', none of the rows it
\* matched is returned by a later Select, by heap scan or through the
\* primary-key index, whatever fetches, evictions and reloads happen in between
\* (here: until the next Insert or Update).
C27_DeletedRowsStayDeleted ==
    (tb_last.op = "select" /\ tb_last.st = "ok") =>
        \A i \in DOMAIN tb_last.rows : tb_last.rows[i] \notin tb_deleted

\* what holds of Delete: on a server that was not restarted, with a cache that
\* holds every page, the rows stay deleted
C27_HoldsWithoutReload ==
    (tb_restarts = 0 /\ MaxTbPages <= capacity) => C27_DeletedRowsStayDeleted

\* C28: Insert terminates for every value: a row whose serialized form is too
\* large for an empty slotted page is refused with an error, after a bounded
\* number of page allocations.
C28_InsertTerminates ==
    tb_last.op = "insert" =>
        /\ tb_last.st # "hang"
        /\ ~fits_empty_page(row_to_vec(tb_last.row)) => tb_last.st = "err"

\* what holds of Insert: a row that an empty page has room for is placed, with
\* at most one page allocated for the heap and two for the index
C28_HoldsOfRowsThatFit ==
    (tb_last.op = "insert" /\ fits_empty_page(row_to_vec(tb_last.row))) =>
        tb_last.st # "hang" /\ tb_last.pages <= 3

\* C30: every row a Select with a where clause returns satisfies the clause,
\* also on the primary-key index path: Select where id = k never returns a row
\* whose id differs from k, also after Updates that change id.
C30_SelectedRowsMatch ==
    (tb_last.op = "select" /\ tb_last.st = "ok" /\ tb_last.where.some) =>
        \A i \in DOMAIN tb_last.rows :
            tb_last.rows[i][tb_last.where.val.column] = tb_last.where.val.value

\* what holds of Select: the rows of a heap scan satisfy the clause
C30_HoldsOfScan ==
    (tb_last.op = "select" /\ ~tb_last.index) => C30_SelectedRowsMatch

\* C29: for every capacity >= 1 a CreateTable and an Insert run by one thread
\* always return: an eviction inside the operation never waits for a page lock
\* the operation itself holds.
C29_QueriesReturn ==
    ex_last.op \in {"create_table", "insert"} => ex_last.st # "hang"

\* the same of BTreeIndex.insert on its own
C29_IndexInsertReturns ==
    bt_last.op = "insert" => bt_last.st # "hang"

\* what holds of the three: they return when the cache has room for the pages
\* the operation holds and allocates
C29_HoldsWithRoom ==
    capacity >= 3 => C29_QueriesReturn /\ C29_IndexInsertReturns

(***************************************************************************)
(* Specification of one slotted page under insert_tuple, update_tuple,     *)
(* mark_deleted and compact (Page::new(0), SlottedPage::new, init, then    *)
(* calls).  sp_orig holds, by slot id, the bytes last stored in the slot.  *)
(***************************************************************************)
\* an empty body, a body that is stored compressed and one that is stored raw
UpInputs ==
    {<<>>, <<1, 1, 1>>, [i \in 1..MaxUpLen |-> i % 2]}

UpInsert ==
    \E b \in UpInputs :
        /\ sp_calls < MaxUpCalls
        /\ sp_calls' = sp_calls + 1
        /\ LET r == insert_tuple(sp, b)
           IN  /\ sp' = r.page
               /\ sp_orig' = IF r.ok THEN Append(sp_orig, b) ELSE sp_orig
               /\ sp_last' = [op |-> "insert_tuple", ok |-> r.ok, slot |-> r.slot,
                              compacted |-> free_space(sp) < Len(final_data(b).data) + 1 + SLOT_SIZE]
        /\ UNCHANGED sp_dead

UpUpdate ==
    \E s \in 0..MaxSlotId, b \in UpInputs :
        /\ sp_calls < MaxUpCalls
        /\ sp_calls' = sp_calls + 1
        /\ LET r == update_tuple(sp, s, b)
           IN  /\ sp' = r.page
               /\ sp_orig' = IF r.ok THEN [sp_orig EXCEPT ![s + 1] = b] ELSE sp_orig
               /\ sp_dead' = IF r.ok THEN sp_dead \ {s} ELSE sp_dead
               /\ sp_last' = [op |-> "update_tuple", ok |-> r.ok, slot |-> s, data |-> b,
                              compacted |-> s < num_slots(sp)
                                               /\ free_space(sp) < Len(final_data(b).data) + 1]

UpNext ==
    \/ UpInsert /\ UNCHANGED <<poolVars, bpVars, btVars, exVars, auxVars>>
    \/ UpUpdate /\ UNCHANGED <<poolVars, bpVars, btVars, exVars, auxVars>>
    \/ SlCompact /\ UNCHANGED <<poolVars, bpVars, btVars, exVars, auxVars>>
    \/ SlMarkDeleted /\ UNCHANGED <<poolVars, bpVars, btVars, exVars, auxVars>>

SpecUpdate == SlInit /\ [][UpNext]_vars

\* slot ids whose slot entry has a non-zero offset
LiveSlots(p) ==
    {i \in 0..(num_slots(p) - 1) : read_u16(p.data, slot_offset(i)) # 0}

SlotStart(p, i) == read_u16(p.data, slot_offset(i))

SlotEnd(p, i) == read_u16(p.data, slot_offset(i)) + read_u16(p.data, slot_offset(i) + 2)

\* C32: after any sequence of init, insert_tuple, update_tuple, mark_deleted
\* and compact, the slot array ends at or below free_space_end, which is at
\* most PAGE_SIZE; the bytes of every live slot lie between free_space_end
\* and PAGE_SIZE; and the bytes of two distinct live slots do not overlap.
C32_PageLayout ==
    /\ SLOTTED_HEADER_SIZE + SLOT_SIZE * num_slots(sp) <= free_space_end(sp)
    /\ free_space_end(sp) <= PAGE_SIZE
    /\ \A i \in LiveSlots(sp) :
           /\ free_space_end(sp) <= SlotStart(sp, i)
           /\ SlotEnd(sp, i) <= PAGE_SIZE
    /\ \A i, j \in LiveSlots(sp) :
           i # j => \/ SlotEnd(sp, i) <= SlotStart(sp, j)
                    \/ SlotEnd(sp, j) <= SlotStart(sp, i)

\* a full page with two live slots and a tombstone, after an update that compacted
C32_Witness ==
    /\ sp_last.op = "update_tuple"
    /\ sp_last.ok
    /\ sp_last.compacted
    /\ Cardinality(LiveSlots(sp)) >= 2
    /\ Cardinality(LiveSlots(sp)) < num_slots(sp)

\* C33: a successful update_tuple(s, b) makes get_tuple(s) return b, keeps
\* num_slots and next_page_id, and keeps get_tuple(t) for every other slot t,
\* also when the page was compacted; update_tuple of a slot id that is not
\* below num_slots fails and leaves the page as it was.
C33_UpdateTouchesOneSlot ==
    [][(sp_calls' # sp_calls /\ sp_last'.op = "update_tuple") =>
          IF sp_last'.ok
          THEN /\ get_tuple(sp', sp_last'.slot) = Some(sp_last'.data)
               /\ num_slots(sp') = num_slots(sp)
               /\ next_page_id(sp') = next_page_id(sp)
               /\ \A t \in (0..(MaxSlotId + 1)) \ {sp_last'.slot} :
                      get_tuple(sp', t) = get_tuple(sp, t)
          ELSE sp_last'.slot >= num_slots(sp) => sp' = sp]_vars

\* an update of slot 1 that compacted, beside a live slot 0
C33_Witness ==
    /\ sp_last.op = "update_tuple"
    /\ sp_last.ok
    /\ sp_last.compacted
    /\ sp_last.slot = 1
    /\ 0 \in LiveSlots(sp)
    /\ Len(sp_last.data) = MaxUpLen

\* an update of a slot id that is not below num_slots
C33_WitnessInvalidSlot ==
    /\ sp_last.op = "update_tuple"
    /\ ~sp_last.ok
    /\ sp_last.slot >= num_slots(sp)
    /\ num_slots(sp) >= 1

\* C35: an insert_tuple that fails for lack of space, after its compaction,
\* keeps num_slots and next_page_id and the result of get_tuple for every
\* slot id.
C35_FailedInsertKeepsContent ==
    [][(sp_calls' # sp_calls /\ sp_last'.op = "insert_tuple" /\ ~sp_last'.ok) =>
          /\ num_slots(sp') = num_slots(sp)
          /\ next_page_id(sp') = next_page_id(sp)
          /\ \A t \in 0..(MaxSlotId + 1) : get_tuple(sp', t) = get_tuple(sp, t)]_vars

\* a failed insert_tuple on a page that holds a live tuple and a tombstone
C35_Witness ==
    /\ sp_last.op = "insert_tuple"
    /\ ~sp_last.ok
    /\ LiveSlots(sp) # {}
    /\ Cardinality(LiveSlots(sp)) < num_slots(sp)

(***************************************************************************)
(* Specification of Inserts into one table whose rows carry ids up to and  *)
(* above u32::MAX: the server after CreateTable t has returned, with a     *)
(* cache that holds every page.                                            *)
(***************************************************************************)
KyRows == {[id |-> i, v |-> 1] : i \in {1, 2, U32_MAX, U32_MAX + 2}}

KyInit ==
    /\ \E primary_key \in BOOLEAN :
          StoreIs(Settle(handle_create_table(
              [file |-> <<HeaderBytes,
                          catalog_store(PageNew(1), catalog_to_bytes(CatalogNew)).data>>,
               total_pages |-> 2, pages |-> <<>>, objs |-> <<>>, capacity |-> MaxTbPages],
              "t", primary_key).s))
    /\ tb_deleted = {}
    /\ tb_writes = 0
    /\ tb_restarts = 0
    /\ tb_last = [op |-> "create_table", st |-> "ok"]
    /\ BpIdle /\ SpIdle /\ BtIdle /\ ExIdle
    /\ PgIdle /\ CtIdle /\ BqIdle /\ OsIdle /\ CcIdle /\ AuIdle /\ LkIdle /\ LateIdle

KyInsert ==
    \E row \in KyRows :
        LET returned(r) ==
                /\ SetStore(Settle(r.s))
                /\ tb_writes' = tb_writes + 1
                /\ tb_last' = [op |-> "insert", st |-> r.st, row |-> row]
                /\ UNCHANGED <<tb_deleted, tb_restarts>>
        IN  /\ TbRunning
            /\ tb_writes < MaxTbWrites
            /\ total_pages + 3 <= MaxTbPages
            /\ returned(handle_insert(Store, "t", <<row>>))

KyNext == KyInsert /\ UNCHANGED tbOthers

SpecKey == KyInit /\ [][KyNext]_vars

\* the keys of the entries of table t's index on store s
IndexKeys(s) == chain_keys(s, CatalogOf(s)["t"].index_root_page_id, {})

KeyCount(s, key) == Cardinality({i \in DOMAIN IndexKeys(s) : IndexKeys(s)[i] = key})

\* C31: an Insert that returns Ok adds an index entry for the row if and only
\* if the table has a primary-key column and the row's value for it is an
\* integer from 0 to u32::MAX; a row with a larger value gets no entry, and no
\* entry is stored under the value modulo 2^32.
C31_IndexEntryIffKeyInRange ==
    [][(tb_last'.op = "insert" /\ tb_last'.st = "ok" /\ tb_writes' # tb_writes) =>
          IF CatalogOf(Store)["t"].primary_key /\ tb_last'.row.id <= U32_MAX
          THEN /\ Len(IndexKeys(Store')) = Len(IndexKeys(Store)) + 1
               /\ KeyCount(Store', tb_last'.row.id) = KeyCount(Store, tb_last'.row.id) + 1
          ELSE IndexKeys(Store') = IndexKeys(Store)]_vars

\* what holds: a row whose value is at most u32::MAX gets an entry under that
\* value exactly when the table has a primary-key column
C31_HoldsOfKeysInRange ==
    [][(/\ tb_last'.op = "insert" /\ tb_last'.st = "ok" /\ tb_writes' # tb_writes
        /\ tb_last'.row.id <= U32_MAX) =>
          IF CatalogOf(Store)["t"].primary_key
          THEN /\ Len(IndexKeys(Store')) = Len(IndexKeys(Store)) + 1
               /\ KeyCount(Store', tb_last'.row.id) = KeyCount(Store, tb_last'.row.id) + 1
          ELSE IndexKeys(Store') = IndexKeys(Store)]_vars

(***************************************************************************)
(* Specification of a BTreeIndex whose root is a leaf, under inserts that  *)
(* repeat keys and searches, with a cache that holds every page.  Inserts  *)
(* are made while the leaf is not full.  bt_done maps a key to the value   *)
(* of the first insert of it.                                              *)
(***************************************************************************)
\* the (key, value) entries of the root leaf of store s, in entry order
RootEntries(s) ==
    LET p == [data |-> Peek(s, bt_root)]
        value_offset(i) == BTREE_HEADER_SIZE + i * (KEY_SIZE + VALUE_SIZE) + KEY_SIZE
    IN  [i \in 1..num_keys(p) |->
            [key |-> get_key(p, i - 1),
             value |-> <<read_u32(p.data, value_offset(i - 1)),
                         read_u16(p.data, value_offset(i - 1) + 4)>>]]

DpInit ==
    /\ bt_root = 1
    /\ LET s0 == [file |-> <<>>, total_pages |-> 0, pages |-> <<>>, objs |-> <<>>,
                  capacity |-> MaxBtCapacity]
       IN  StoreIs(Settle(btree_init(allocate_page(allocate_page(s0)), 1, NoGuards).s))
    /\ bt_done = <<>>
    /\ bt_tried = {}
    /\ bt_last = [op |-> "init", key |-> 0, st |-> "ok", val |-> None]
    /\ BpIdle /\ SpIdle /\ ExIdle /\ AuxIdle

DpInsert ==
    \E key \in BtKeys, value \in BtLocators :
        LET returned(r) ==
                /\ SetStore(Settle(r.s))
                /\ bt_tried' = bt_tried \cup {key}
                /\ bt_done' = IF r.st = "ok" /\ key \notin DOMAIN bt_done
                              THEN (key :> value) @@ bt_done ELSE bt_done
                /\ bt_last' = [op |-> "insert", key |-> key, st |-> r.st, val |-> Some(value)]
                /\ UNCHANGED bt_root
        IN  /\ Len(RootEntries(Store)) < LEAF_ORDER
            /\ returned(btree_insert(Store, bt_root, key, value, NoGuards))

DpNext ==
    \/ DpInsert /\ UNCHANGED <<bpVars, spVars, exVars, auxVars>>
    \/ BtSearch /\ UNCHANGED <<bpVars, spVars, exVars, auxVars>>

SpecDup == DpInit /\ [][DpNext]_vars

\* the entries after entry (key, value) is put behind the last entry whose key is at
\* most key
PutBehind(entries, key, value) ==
    LET pos == Cardinality({i \in DOMAIN entries : entries[i].key <= key})
    IN  SubSeq(entries, 1, pos) \o <<[key |-> key, value |-> value]>>
            \o SubSeq(entries, pos + 1, Len(entries))

\* C36: an insert of a key that a non-full leaf already holds overwrites
\* nothing: the new entry is added behind the entries with that key, num_keys
\* grows by one, and search(k) keeps returning the value inserted first.
C36_DuplicateKeyIsAppended ==
    /\ [][(bt_last'.op = "insert" /\ bt_last'.key \in bt_tried) =>
             /\ bt_last'.st = "ok"
             /\ RootEntries(Store') =
                    PutBehind(RootEntries(Store), bt_last'.key, bt_last'.val.val)
             /\ Len(RootEntries(Store')) = Len(RootEntries(Store)) + 1]_vars
    /\ []((bt_last.op = "search" /\ bt_last.key \in bt_tried) =>
             /\ bt_last.st = "ok"
             /\ bt_last.val = Some(bt_done[bt_last.key]))

\* a search of a key the leaf holds twice, with two different values
C36_Witness ==
    /\ bt_last.op = "search"
    /\ Len(RootEntries(Store)) = 2
    /\ RootEntries(Store)[1].key = bt_last.key
    /\ RootEntries(Store)[2].key = bt_last.key
    /\ RootEntries(Store)[1].value # RootEntries(Store)[2].value
    /\ bt_last.val = Some(RootEntries(Store)[1].value)

(***************************************************************************)
(* Executor::check_filter, operator LIKE (query/executor.rs).              *)
(*                                                                         *)
(* A JSON value is [str |-> characters] or [num |-> n]; characters are     *)
(* bytes, 37 is '%'.  The result is [st, val]: st is "panic" where a       *)
(* string slice panics.                                                    *)
(***************************************************************************)
\* Value::as_str
as_str(v) == IF "str" \in DOMAIN v THEN Some(v.str) ELSE None

\* str::starts_with, str::ends_with, str::contains
starts_with(s, t) == Len(t) <= Len(s) /\ SubSeq(s, 1, Len(t)) = t
ends_with(s, t) == Len(t) <= Len(s) /\ SubSeq(s, Len(s) - Len(t) + 1, Len(s)) = t
contains(s, t) == \E i \in 0..(Len(s) - Len(t)) : SubSeq(s, i + 1, i + Len(t)) = t

\* &pattern[from..to]: [ok, val]; the slice panics when from > to or to > len
str_slice(pattern, from, to) ==
    IF from > to \/ to > Len(pattern) THEN [ok |-> FALSE, val |-> <<>>]
    ELSE [ok |-> TRUE, val |-> SubSeq(pattern, from + 1, to)]

\* the "LIKE" arm of check_filter
check_filter_like(col_val, value) ==
    LET sliced(r, test(_)) ==
            IF r.ok THEN [st |-> "ok", val |-> test(r.val)]
            ELSE [st |-> "panic", val |-> FALSE]
        like(s, pattern) ==
            LET inner(t) == contains(s, t)
                tail(t) == ends_with(s, t)
                front(t) == starts_with(s, t)
            IN  IF starts_with(pattern, <<37>>) /\ ends_with(pattern, <<37>>)
                THEN sliced(str_slice(pattern, 1, Len(pattern) - 1), inner)
                ELSE IF starts_with(pattern, <<37>>)
                THEN sliced(str_slice(pattern, 1, Len(pattern)), tail)
                ELSE IF ends_with(pattern, <<37>>)
                THEN sliced(str_slice(pattern, 0, Len(pattern) - 1), front)
                ELSE [st |-> "ok", val |-> s = pattern]
    IN  IF as_str(col_val).some /\ as_str(value).some
        THEN like(as_str(col_val).val, as_str(value).val)
        ELSE [st |-> "ok", val |-> FALSE]

(***************************************************************************)
(* Specification of check_filter with LIKE, called once with a column      *)
(* value and a pattern value from a bounded set.                           *)
(***************************************************************************)
RECURSIVE Strings(_)
Strings(n) ==
    IF n = 0 THEN {<<>>}
    ELSE Strings(n - 1) \cup {Append(t, c) : t \in Strings(n - 1), c \in {97, 98, 37}}

FlValues == {[str |-> t] : t \in Strings(MaxLikeLen)} \cup {[num |-> 1]}

FlInit ==
    /\ fl_last = [op |-> "none"]
    /\ PoolIdle /\ BpIdle /\ SpIdle /\ BtIdle /\ ExIdle
    /\ PgIdle /\ CtIdle /\ BqIdle /\ OsIdle /\ CcIdle /\ AuIdle /\ LkIdle /\ TbIdle
    /\ LrIdle /\ QcIdle

FlCheck ==
    \E col_val \in FlValues, value \in FlValues :
        LET returned(r) ==
                fl_last' = [op |-> "LIKE", col_val |-> col_val, value |-> value,
                            st |-> r.st, val |-> r.val]
        IN  /\ fl_last.op = "none"
            /\ returned(check_filter_like(col_val, value))

FlNext ==
    FlCheck /\ UNCHANGED <<poolVars, bpVars, spVars, btVars, exVars, pgVars, ctVars, bqVars,
                           osVars, ccVars, auVars, lkVars, tbVars, lrVars, qcVars>>

SpecFilter == FlInit /\ [][FlNext]_vars

\* t occurs in s
Occurs(t, s) == \E i, j \in 0..Len(s) : i <= j /\ SubSeq(s, i + 1, j) = t

\* what the wildcard rule says of string s and pattern p
LikeRule(s, p) ==
    LET first == Len(p) >= 1 /\ p[1] = 37
        last == Len(p) >= 1 /\ p[Len(p)] = 37
    IN  IF first /\ last THEN Occurs(SubSeq(p, 2, Len(p) - 1), s)
        ELSE IF first THEN \E i \in 0..Len(s) : SubSeq(s, i + 1, Len(s)) = Tail(p)
        ELSE IF last THEN \E j \in 0..Len(s) : SubSeq(s, 1, j) = SubSeq(p, 1, Len(p) - 1)
        ELSE s = p

\* the last call returned the boolean the wildcard rule gives
FlAsRule ==
    /\ fl_last.st = "ok"
    /\ fl_last.val = IF "str" \in DOMAIN fl_last.col_val /\ "str" \in DOMAIN fl_last.value
                     THEN LikeRule(fl_last.col_val.str, fl_last.value.str)
                     ELSE FALSE

\* C39: check_filter with LIKE returns a boolean for every pattern, the
\* one-character pattern "%" included: whether s contains the text between
\* the two % of a pattern that starts and ends with %, ends with the rest of a
\* pattern that only starts with %, starts with the rest of a pattern that
\* only ends with %, equals any other pattern; false when a side is no string.
C39_LikeFollowsWildcardRule ==
    fl_last.op = "LIKE" => FlAsRule

\* what holds: the same for every pattern but the one-character pattern "%"
C39_HoldsOfOtherPatterns ==
    (fl_last.op = "LIKE" /\ fl_last.value # [str |-> <<37>>]) => FlAsRule

(***************************************************************************)
(* QueryCache (storage/cache.rs).                                          *)
(*                                                                         *)
(* The cache is an LruCache<u64, Value> keyed by the hash of the query     *)
(* text: a sequence of [key, val], most recently used first.  Query texts  *)
(* are numbered from 0; there is one text more than there are hash values. *)
(***************************************************************************)
QcQueries == 0..(U64_MAX + 1)

QcValues == {1, 2}

\* QueryCache::hash_query: DefaultHasher over the text, a u64
hash_query(query_json) == query_json % (U64_MAX + 1)

\* the entries of cache with key k
lru_at(cache, k) == {i \in DOMAIN cache : cache[i].key = k}

\* LruCache::get: the entry, if there is one, moves to the front: [cache, val]
lru_get(cache, k) ==
    IF lru_at(cache, k) = {} THEN [cache |-> cache, val |-> None]
    ELSE LET i == CHOOSE j \in lru_at(cache, k) : TRUE
         IN  [cache |-> <<cache[i]>> \o SubSeq(cache, 1, i - 1)
                            \o SubSeq(cache, i + 1, Len(cache)),
              val |-> Some(cache[i].val)]

\* LruCache::put: the value of an entry that is there is replaced and the entry moves
\* to the front; a new entry pushes the least recently used one out of a full cache
lru_put(cache, cap, k, v) ==
    IF lru_at(cache, k) # {}
    THEN LET i == CHOOSE j \in lru_at(cache, k) : TRUE
         IN  <<[key |-> k, val |-> v]>> \o SubSeq(cache, 1, i - 1)
                 \o SubSeq(cache, i + 1, Len(cache))
    ELSE <<[key |-> k, val |-> v]>>
             \o (IF Len(cache) >= cap THEN SubSeq(cache, 1, Len(cache) - 1) ELSE cache)

(***************************************************************************)
(* Specification of one QueryCache under get, put, invalidate_all and      *)
(* invalidate_table.  qc_ideal is an LRU cache of the same capacity keyed  *)
(* by the query text itself; qc_last.texts are the texts passed so far.    *)
(***************************************************************************)
QcInit ==
    /\ qc_cache = <<>>
    /\ qc_ideal = <<>>
    /\ qc_last = [op |-> "new", q |-> 0, got |-> None, expect |-> None, texts |-> {}]
    /\ PoolIdle /\ BpIdle /\ SpIdle /\ BtIdle /\ ExIdle
    /\ PgIdle /\ CtIdle /\ BqIdle /\ OsIdle /\ CcIdle /\ AuIdle /\ LkIdle /\ TbIdle
    /\ LrIdle /\ FlIdle

QcGet ==
    \E q \in QcQueries :
        /\ qc_cache' = lru_get(qc_cache, hash_query(q)).cache
        /\ qc_ideal' = lru_get(qc_ideal, q).cache
        /\ qc_last' = [op |-> "get", q |-> q, got |-> lru_get(qc_cache, hash_query(q)).val,
                       expect |-> lru_get(qc_ideal, q).val,
                       texts |-> qc_last.texts \cup {q}]

QcPut ==
    \E q \in QcQueries, v \in QcValues :
        /\ qc_cache' = lru_put(qc_cache, MaxQcCapacity, hash_query(q), v)
        /\ qc_ideal' = lru_put(qc_ideal, MaxQcCapacity, q, v)
        /\ qc_last' = [op |-> "put", q |-> q, got |-> None, expect |-> None,
                       texts |-> qc_last.texts \cup {q}]

QcInvalidateAll ==
    /\ qc_cache' = <<>>
    /\ qc_ideal' = <<>>
    /\ qc_last' = [op |-> "invalidate_all", q |-> 0, got |-> None, expect |-> None,
                   texts |-> qc_last.texts]

QcInvalidateTable ==
    \E table \in TableNames :
        /\ qc_cache' = <<>>
        /\ qc_ideal' = <<>>
        /\ qc_last' = [op |-> "invalidate_table", q |-> 0, got |-> None, expect |-> None,
                       texts |-> qc_last.texts]

qcOthers ==
    <<poolVars, bpVars, spVars, btVars, exVars, pgVars, ctVars, bqVars, osVars, ccVars,
      auVars, lkVars, tbVars, lrVars, flVars>>

QcNext ==
    \/ QcGet /\ UNCHANGED qcOthers
    \/ QcPut /\ UNCHANGED qcOthers
    \/ QcInvalidateAll /\ UNCHANGED qcOthers
    \/ QcInvalidateTable /\ UNCHANGED qcOthers

SpecQueryCache == QcInit /\ [][QcNext]_vars

\* C40: get(q) returns the value of the most recent put(q, v) as long as q has
\* not been pushed out by the LRU capacity and nothing was invalidated since;
\* after invalidate_all or invalidate_table get returns None for every query
\* until the next put of that query.
C40_GetReturnsLastPut ==
    qc_last.op = "get" => qc_last.got = qc_last.expect

\* what holds: the same as long as no two of the texts passed so far have one hash
C40_HoldsOfDistinctHashes ==
    (/\ qc_last.op = "get"
     /\ \A a, b \in qc_last.texts : hash_query(a) = hash_query(b) => a = b)
        => qc_last.got = qc_last.expect

(***************************************************************************)
(* Specification of the buffer pool's replacement order: the callers of    *)
(* the pool specification, with every fetch_page and new_page recorded.    *)
(* lr_order lists the page ids of the last `capacity` distinct pages that  *)
(* fetch_page or new_page returned, the latest first.                      *)
(***************************************************************************)
\* the ids of the cached pages
CachedIds(s) == {s.pages[i].gid : i \in 1..Len(s.pages)}

\* gid becomes the latest of the last cap distinct ids
Latest(order, gid, cap) ==
    LET others == SelectSeq(order, LAMBDA x : x # gid)
    IN  <<gid>> \o SubSeq(others, 1, IF Len(others) < cap - 1 THEN Len(others) ELSE cap - 1)

LrAfter(r, op, gid, hit) ==
    /\ bp_last' = [op |-> op, gid |-> gid, ok |-> r.ok, hit |-> hit,
                   evicted |-> r.evicted, victim |-> r.victim.gid,
                   handle |-> IF r.ok THEN Some(r.h) ELSE None,
                   cached |-> IF CachedAt(Store, gid) # {} THEN Some(HandleOf(Store, gid))
                              ELSE None]
    /\ lr_order' = IF r.ok THEN Latest(lr_order, gid, capacity) ELSE lr_order
    /\ UNCHANGED bp_evicted

LrFetch ==
    \E gid \in BpPageIds, keep \in BOOLEAN :
        LET fetched(r) ==
                /\ keep => Cardinality(held) < MaxHeld \/ (r.ok /\ r.h \in held)
                /\ BpSettle(r.s, IF r.ok /\ keep THEN held \cup {r.h} ELSE held)
                /\ LrAfter(r, "fetch_page", gid, r.hit)
        IN  fetched(fetch_page(Store, gid, {}))

LrNewPage ==
    \E keep \in BOOLEAN :
        /\ total_pages < MaxPages
        /\ keep => Cardinality(held) < MaxHeld
        /\ LET allocated(r) ==
                   /\ BpSettle(r.s, IF keep THEN held \cup {r.h} ELSE held)
                   /\ LrAfter(r, "new_page", r.id, FALSE)
           IN  allocated(new_page(Store, {}))

lrOthers ==
    <<spVars, btVars, exVars, pgVars, ctVars, bqVars, osVars, ccVars, auVars, lkVars, tbVars,
      flVars, qcVars>>

LrNext ==
    \/ LrFetch /\ UNCHANGED lrOthers
    \/ LrNewPage /\ UNCHANGED lrOthers
    \/ BpWrite /\ UNCHANGED <<lrOthers, lrVars>>
    \/ BpDrop /\ UNCHANGED <<lrOthers, lrVars>>

SpecLru == BpInit /\ [][LrNext]_vars

LrCall == {"fetch_page", "new_page"}

\* C37: the pool follows LRU.  A fetch_page miss or a new_page on a full
\* cache evicts the entry whose latest fetch_page or new_page is the oldest,
\* and evicts nothing while the cache is not full; a fetch_page hit returns
\* the cached handle, reads nothing from the file and counts as the page's
\* latest use; the cache never holds more than capacity entries nor two
\* entries for one page id.
C37_PoolFollowsLru ==
    /\ [](/\ Len(pages) <= capacity
          /\ \A i, j \in 1..Len(pages) : pages[i].gid = pages[j].gid => i = j
          /\ CachedIds(Store) = {lr_order[i] : i \in 1..Len(lr_order)})
    /\ [][(bp_last'.op \in LrCall /\ bp_last'.ok) =>
             /\ bp_last'.evicted <=> (~bp_last'.hit /\ Len(pages) = capacity)
             /\ bp_last'.evicted =>
                    /\ bp_last'.victim = lr_order[Len(lr_order)]
                    /\ CachedIds(Store') =
                           (CachedIds(Store) \ {bp_last'.victim}) \cup {bp_last'.gid}
             /\ bp_last'.hit =>
                    /\ bp_last'.handle = bp_last'.cached
                    /\ file' = file
                    /\ objs'[bp_last'.gid] = objs[bp_last'.gid]
                    /\ CachedIds(Store') = CachedIds(Store)]_vars

\* an eviction whose victim was allocated after a page that stays cached
C37_Witness ==
    /\ bp_last.op \in LrCall
    /\ bp_last.evicted
    /\ \E p \in CachedIds(Store) : p < bp_last.victim /\ p # bp_last.gid

\* a hit on a page whose cached bytes are not the file's
C37_WitnessHit ==
    /\ bp_last.op = "fetch_page"
    /\ bp_last.hit
    /\ objs[bp_last.gid].data # file[bp_last.gid + 1]

(***************************************************************************)
(* Specification of Updates on one table: the server of the key            *)
(* specification (CreateTable t has returned, the cache holds every page,  *)
(* no restart), with Inserts of short rows whose id no live row has,       *)
(* Updates of the columns id and v with and without a where clause,        *)
(* Deletes and Selects.                                                    *)
(***************************************************************************)
RwRows == {[id |-> i, v |-> 1] : i \in 1..MaxTbId}

\* the live rows of table t on store s, each with its locator
Located(s) ==
    LET page(p) == PageFromBytes(p, Peek(s, p))
        live(p, i) ==
            /\ get_tuple(page(p), i).some
            /\ get_tuple(page(p), i).val # <<>>
            /\ row_from_slice(get_tuple(page(p), i).val).ok
    IN  UNION {{[page_id |-> p, slot_id |-> i,
                 row |-> row_from_slice(get_tuple(page(p), i).val).val] :
                   i \in {j \in 0..MaxSlotId : live(p, j)}} :
               p \in HeapChain(s, CatalogOf(s)["t"].root_page_id, {})}

RwInsert ==
    \E row \in RwRows :
        LET returned(r) ==
                /\ SetStore(Settle(r.s))
                /\ tb_writes' = tb_writes + 1
                /\ tb_last' = [op |-> "insert", st |-> r.st, row |-> row]
                /\ UNCHANGED <<tb_deleted, tb_restarts>>
        IN  /\ TbRunning
            /\ tb_writes < MaxTbWrites
            /\ total_pages + 3 <= MaxTbPages
            /\ \A r \in Located(Store) : r.row.id # row.id
            /\ returned(handle_insert(Store, "t", <<row>>))

RwUpdate ==
    \E set \in TbSets, where \in TbWheres :
        LET returned(r) ==
                /\ SetStore(Settle(r.s))
                /\ tb_writes' = tb_writes + 1
                /\ tb_last' = [op |-> "update", st |-> r.st, count |-> r.count,
                               set |-> set, where |-> where]
                /\ UNCHANGED <<tb_deleted, tb_restarts>>
        IN  /\ TbRunning
            /\ tb_writes < MaxTbWrites
            /\ returned(handle_update(Store, "t", set, where))

RwNext ==
    \/ RwInsert /\ UNCHANGED tbOthers
    \/ RwUpdate /\ UNCHANGED tbOthers
    \/ TbDelete /\ UNCHANGED tbOthers
    \/ TbSelect /\ UNCHANGED tbOthers

SpecRewrite == KyInit /\ [][RwNext]_vars

\* an Update that returned Ok rewrote each live row the clause matches once, in its
\* slot, kept the other rows, and reported the number of rows it rewrote
RwRewritten ==
    [][(tb_last'.op = "update" /\ tb_last'.st = "ok" /\ tb_writes' # tb_writes) =>
          /\ Located(Store') =
                 {[r EXCEPT !.row = IF match_filter(r.row, tb_last'.where)
                                    THEN apply_set(r.row, tb_last'.set) ELSE r.row] :
                      r \in Located(Store)}
          /\ tb_last'.count =
                 Cardinality({r \in Located(Store) : match_filter(r.row, tb_last'.where)})]_vars

\* a Select that returned Ok returned the rows, as they are now, that its clause matches
RwSelected ==
    (tb_last.op = "select" /\ tb_last.st = "ok") =>
        /\ {tb_last.rows[i] : i \in DOMAIN tb_last.rows} =
               {r.row : r \in {x \in Located(Store) : match_filter(x.row, tb_last.where)}}
        /\ Len(tb_last.rows) =
               Cardinality({x \in Located(Store) : match_filter(x.row, tb_last.where)})

\* C34: a successful Update with set S and filter W rewrites each live row
\* that matches W exactly once (the fields of S replaced, the others kept),
\* leaves the other rows unchanged, reports the number of rows rewritten and
\* keeps every row's locator, so that later Selects, by scan or through the
\* primary-key index, return the updated values.
C34_UpdateRewritesMatchingRows ==
    RwRewritten /\ []RwSelected

\* what holds: the rewrite itself, and the Selects that scan the heap
C34_HoldsOfScan ==
    RwRewritten /\ []((tb_last.op = "select" /\ ~tb_last.index) => RwSelected)

\* the walk along next_page_id from heap page p: the pages met, in order, and how the
\* walk ends: at next_page_id = 0, at a page met before, or at an id that is no
\* allocated data page
RECURSIVE ChainWalk(_, _, _)
ChainWalk(s, p, walked) ==
    IF p = 0 THEN [pages |-> walked, end |-> "zero"]
    ELSE IF \E i \in DOMAIN walked : walked[i] = p THEN [pages |-> walked, end |-> "cycle"]
    ELSE IF p < 2 \/ p >= s.total_pages \/ p >= Len(s.file)
    THEN [pages |-> walked, end |-> "range"]
    ELSE ChainWalk(s, next_page_id(PageFromBytes(p, Peek(s, p))), Append(walked, p))

TableWalk(s, n) == ChainWalk(s, CatalogOf(s)[n].root_page_id, <<>>)

\* page p of store s has the header of a slotted page that init was called on
Initialized(s, p) ==
    LET page == PageFromBytes(p, Peek(s, p))
    IN  /\ SLOTTED_HEADER_SIZE + SLOT_SIZE * num_slots(page) <= free_space_end(page)
        /\ free_space_end(page) <= PAGE_SIZE

\* C38: every table of the catalog has a heap file that is a finite chain
\* without a cycle: the walk along next_page_id from root_page_id meets
\* pairwise distinct initialized slotted pages with ids from 2 to
\* total_pages - 1 and ends at next_page_id = 0; no page is in the chains of
\* two tables; a scan of the chain (that of Select, which Update and Delete
\* walk in the same way) returns.
C38_HeapChainsAcyclic ==
    /\ \A n \in DOMAIN CatalogOf(Store) :
          /\ TableWalk(Store, n).end = "zero"
          /\ Len(TableWalk(Store, n).pages) >= 1
          /\ \A i \in DOMAIN TableWalk(Store, n).pages :
                /\ TableWalk(Store, n).pages[i] \in 2..(total_pages - 1)
                /\ Initialized(Store, TableWalk(Store, n).pages[i])
                /\ \A j \in DOMAIN TableWalk(Store, n).pages :
                      TableWalk(Store, n).pages[i] = TableWalk(Store, n).pages[j] => i = j
    /\ \A n, m \in DOMAIN CatalogOf(Store) :
          n # m => \A i \in DOMAIN TableWalk(Store, n).pages,
                      j \in DOMAIN TableWalk(Store, m).pages :
                       TableWalk(Store, n).pages[i] # TableWalk(Store, m).pages[j]
    /\ \A n \in DOMAIN CatalogOf(Store) : handle_select(Store, n, <<"*">>, None).st = "ok"

\* two tables in the catalog, one of them with a chain of two pages
C38_Witness ==
    /\ Cardinality(DOMAIN CatalogOf(Store)) = 2
    /\ \E n \in DOMAIN CatalogOf(Store) :
          /\ Len(TableWalk(Store, n).pages) >= 2
          /\ TableWalk(Store, n).end = "zero"

=============================================================================
